---- MODULE Spec2Model ----
(***************************************************************************)
(* A model of vm/src/stdlib/os.rs (RustPython's os module): the directory  *)
(* iterator returned by scandir, the error translator, the dir_fd          *)
(* capability gate, path handling and the stat record.                     *)
(***************************************************************************)
EXTENDS Integers, Sequences, FiniteSets, TLC

VARIABLES
    entries,      \* ScandirIterator.entries: the ReadDir stream, what is left of it
    entriesLock,  \* the PyRwLock around entries: 0 when free, else the writer
    exhausted,    \* ScandirIterator.exhausted (AtomicCell<bool>)
    iterMode,     \* ScandirIterator.mode (OutputMode)
    iterDir,      \* the directory the stream reads, and the argument it came from
    pc,           \* per thread: where it is inside PyIter::next
    local,        \* per thread: the Option<io::Result<DirEntry>> it read
    ret,          \* per thread: what its last call returned
    closed,       \* a close() call on the iterator has returned
    platform,     \* the target the module was built for
    call,         \* the last module-level call: operation and arguments
    outcome       \* and its result: exception or value, native calls issued

iterVars == <<entries, entriesLock, exhausted, iterMode, iterDir, pc, local, ret, closed>>
callVars == <<platform, call, outcome>>
vars == <<entries, entriesLock, exhausted, iterMode, iterDir, pc, local, ret, closed,
          platform, call, outcome>>

(***************************************************************************)
(* Bounds of the model.                                                    *)
(***************************************************************************)
NThreads == 2
MaxEntries == 2

Threads == 1..NThreads

(***************************************************************************)
(* Bytes, names and the directory stream.                                  *)
(***************************************************************************)
\* The bytes paths are made of: NUL, the ASCII letters a and b, and 0xFF,
\* which occurs in no UTF-8 encoding.
ByteNUL == 0
ByteA == 97
ByteDot == 46
ByteBad == 255

FileNames == {<<ByteA>>, <<ByteBad>>}

\* One item of a ReadDir stream: Some(Ok(entry)) or Some(Err(e)).
OkItem(name) == [tag |-> "ok", name |-> name]
ErrItem == [tag |-> "err", name |-> <<>>]
NoItem == [tag |-> "none", name |-> <<>>]

StreamItems == {OkItem(n) : n \in FileNames} \cup {ErrItem}

RECURSIVE SeqsUpTo(_, _)
SeqsUpTo(S, n) ==
    IF n = 0 THEN {<<>>}
    ELSE LET shorter == SeqsUpTo(S, n - 1)
         IN  shorter \cup {Append(s, x) : s \in {t \in shorter : Len(t) = n - 1}, x \in S}

\* A directory holds each name once; a read error may occur at any position.
Streams ==
    {s \in SeqsUpTo(StreamItems, MaxEntries) :
        \A i, j \in 1..Len(s) : (i # j /\ s[i].tag = "ok") => s[i] # s[j]}

\* fs::ReadDir::next: the next item of the stream, None at its end.
ReadDirNext(stream) == IF stream = <<>> THEN NoItem ELSE Head(stream)
\* Mutant of ReadDirRest: reading does not advance the cursor.
ReadDirRestStays(stream) == stream
ReadDirRest(stream) == IF stream = <<>> THEN <<>> ELSE Tail(stream)

(***************************************************************************)
(* Fixed-width integers.  A Rust integer of w bits is a little-endian      *)
(* sequence of w/8 limbs in 0..255, two's complement; a Python int is one  *)
(* wide enough for every value the model draws.  Sums and products wrap at *)
(* the width of their operands, as the machine's do.                       *)
(***************************************************************************)
LimbBase == 256

RECURSIVE NatLimbs(_, _)
NatLimbs(n, k) ==
    IF k = 0 THEN <<>> ELSE <<n % LimbBase>> \o NatLimbs(n \div LimbBase, k - 1)

\* a + b + carry on sequences of one length, the carry out of the top dropped
RECURSIVE AddCarry(_, _, _)
AddCarry(a, b, c) ==
    IF a = <<>> THEN <<>>
    ELSE LET d == a[1] + b[1] + c
         IN  <<d % LimbBase>> \o AddCarry(Tail(a), Tail(b), d \div LimbBase)

AddW(a, b) == AddCarry(a, b, 0)
NotW(a) == [i \in 1..Len(a) |-> (LimbBase - 1) - a[i]]
NegW(a) == AddCarry(NotW(a), NatLimbs(0, Len(a)), 1)
SubW(a, b) == AddCarry(a, NotW(b), 1)
IsNegW(a) == a[Len(a)] >= LimbBase \div 2

\* the TLC integer n as a w-limb two's complement value
IntLimbs(n, k) == IF n >= 0 THEN NatLimbs(n, k) ELSE NegW(NatLimbs(-n, k))

\* `x as iN` to a wider type: sign extension; to a narrower one: truncation
SExt(a, k) ==
    IF k <= Len(a) THEN SubSeq(a, 1, k)
    ELSE a \o [i \in 1..(k - Len(a)) |-> IF IsNegW(a) THEN LimbBase - 1 ELSE 0]

\* `x as iN` from an unsigned type: zero extension or truncation
ZExt(a, k) ==
    IF k <= Len(a) THEN SubSeq(a, 1, k)
    ELSE a \o [i \in 1..(k - Len(a)) |-> 0]

\* whether the signed value a is representable in k limbs (try_to_primitive)
FitsW(a, k) == SExt(SExt(a, k), Len(a)) = a

\* a times the single limb d, plus carry, kept to Len(a) limbs
RECURSIVE MulLimb(_, _, _)
MulLimb(a, d, c) ==
    IF a = <<>> THEN <<>>
    ELSE LET m == a[1] * d + c
         IN  <<m % LimbBase>> \o MulLimb(Tail(a), d, m \div LimbBase)

\* a * b kept to Len(a) limbs (wrapping): the sum over i of a * b[i] * 256^(i-1)
RECURSIVE MulFrom(_, _, _)
MulFrom(a, b, i) ==
    IF i > Len(b) THEN NatLimbs(0, Len(a))
    ELSE AddW(SubSeq(NatLimbs(0, i - 1) \o MulLimb(a, b[i], 0), 1, Len(a)),
              MulFrom(a, b, i + 1))

MulW(a, b) == MulFrom(a, b, 1)

\* a \div d and a % d for the unsigned number a and 0 < d < 2^23, limb i first
RECURSIVE DivStep(_, _, _, _)
DivStep(a, d, i, r) ==
    IF i = 0 THEN [q |-> <<>>, r |-> r]
    ELSE LET cur == r * LimbBase + a[i]
             rest == DivStep(SubSeq(a, 1, i - 1), d, i - 1, cur % d)
         IN  [q |-> Append(rest.q, cur \div d), r |-> rest.r]

DivU(a, d) == DivStep(a, d, Len(a), 0)

(***************************************************************************)
(* Targets and their capability constants.                                 *)
(***************************************************************************)
Platforms == {"linux", "redox", "windows", "wasi"}

IsUnix(p) == p \in {"linux", "redox"}
IsWindows(p) == p = "windows"

Bit(b) == IF b THEN 1 ELSE 0

OPEN_DIR_FD(p) == ~(IsWindows(p) \/ p = "redox")
MKDIR_DIR_FD(p) == ~(IsWindows(p) \/ p = "redox")
STAT_DIR_FD(p) == ~IsWindows(p)
UTIME_DIR_FD(p) == ~(IsWindows(p) \/ p = "redox")
SYMLINK_DIR_FD(p) == IF IsUnix(p) THEN p # "redox" ELSE FALSE
LISTDIR_FD(p) == IsUnix(p) /\ p # "redox"

(***************************************************************************)
(* io::Error and its translation to an exception.                          *)
(***************************************************************************)
EPERM == 1
ENOENT == 2
ESRCH == 3
EAGAIN == 11
EWOULDBLOCK == 11
EACCES == 13
EEXIST == 17
EINVAL == 22
EALREADY == 114
EINPROGRESS == 115

EIO == 5

RawCodes == {EPERM, ENOENT, ESRCH, EIO, EAGAIN, EWOULDBLOCK, EACCES, EEXIST, EINVAL,
             EALREADY, EINPROGRESS}
ErrorKinds == {"NotFound", "PermissionDenied", "AlreadyExists", "WouldBlock",
               "InvalidInput", "Other"}

\* io::Error::kind() of an error made from an OS code
DecodeErrorKind(code) ==
    CASE code = ENOENT -> "NotFound"
      [] code \in {EPERM, EACCES} -> "PermissionDenied"
      [] code = EEXIST -> "AlreadyExists"
      [] code \in {EAGAIN, EWOULDBLOCK} -> "WouldBlock"
      [] code = EINVAL -> "InvalidInput"
      [] OTHER -> "Other"

\* io::Error::from_raw_os_error(code) and io::Error::from(kind): raw_os_error()
\* is Some(code) for the first and None for the second.
OsError(code) == [kind |-> DecodeErrorKind(code), raw |-> <<code>>]
SimpleError(kind) == [kind |-> kind, raw |-> <<>>]
NoIoError == [kind |-> "-", raw |-> <<>>]

OsErrors == {OsError(code) : code \in RawCodes}
IoErrors == OsErrors \cup {SimpleError(k) : k \in ErrorKinds}

IoErrorToString(e) == IF e.raw = <<>> THEN "kind description" ELSE "os error"

\* Mutant of IoErrorExcType: the ESRCH arm is missing.
IoErrorExcTypeNoESRCH(e) ==
    CASE e.kind = "NotFound" -> "FileNotFoundError"
      [] e.kind = "PermissionDenied" -> "PermissionError"
      [] e.kind = "AlreadyExists" -> "FileExistsError"
      [] e.kind = "WouldBlock" -> "BlockingIOError"
      [] OTHER ->
           IF e.raw \in {<<EAGAIN>>, <<EALREADY>>, <<EWOULDBLOCK>>, <<EINPROGRESS>>}
           THEN "BlockingIOError"
           ELSE "OSError"

IoErrorExcType(e) ==
    CASE e.kind = "NotFound" -> "FileNotFoundError"
      [] e.kind = "PermissionDenied" -> "PermissionError"
      [] e.kind = "AlreadyExists" -> "FileExistsError"
      [] e.kind = "WouldBlock" -> "BlockingIOError"
      [] OTHER ->
           IF e.raw \in {<<EAGAIN>>, <<EALREADY>>, <<EWOULDBLOCK>>, <<EINPROGRESS>>}
           THEN "BlockingIOError"
           ELSE IF e.raw = <<ESRCH>> THEN "ProcessLookupError"
           ELSE "OSError"

\* convert_nix_errno
ConvertNixErrno(code) == IF code = EPERM THEN "PermissionError" ELSE "OSError"

(***************************************************************************)
(* The result of a call: the exception raised ("none" when it returned),   *)
(* the exception's errno and message, the native calls issued in order,    *)
(* the value returned, and the error the exception was translated from.    *)
(***************************************************************************)
NoVal == [tag |-> "none"]
UnitVal == [tag |-> "unit"]
Pending == [exc |-> "pending"]

Raised(exc, msg, native) ==
    [exc |-> exc, errno |-> <<>>, msg |-> msg, native |-> native, val |-> NoVal,
     via |-> "vm", from |-> NoIoError]

Returned(val, native) ==
    [exc |-> "none", errno |-> <<>>, msg |-> "", native |-> native, val |-> val,
     via |-> "vm", from |-> NoIoError]

\* IntoPyException for &io::Error
IntoPyException(e, native) ==
    [exc |-> IoErrorExcType(e), errno |-> e.raw, msg |-> IoErrorToString(e),
     native |-> native, val |-> NoVal, via |-> "io", from |-> e]

\* IntoPyException for nix::Error
NixIntoPyException(e, native) ==
    CASE e.kind = "InvalidPath" ->
           [exc |-> "FileNotFoundError", errno |-> <<>>, msg |-> "Invalid path",
            native |-> native, val |-> NoVal, via |-> "nix", from |-> e]
      [] e.kind = "UnsupportedOperation" ->
           [exc |-> "RuntimeError", errno |-> <<>>, msg |-> "Unsupported Operation",
            native |-> native, val |-> NoVal, via |-> "nix", from |-> e]
      [] OTHER ->
           [exc |-> ConvertNixErrno(e.raw[1]), errno |-> e.raw, msg |-> "os error",
            native |-> native, val |-> NoVal, via |-> "nix", from |-> e]

NixSys(e) == [kind |-> "Sys", raw |-> e.raw]
NixInvalidPath == [kind |-> "InvalidPath", raw |-> <<>>]

\* errno_err: io::Error::last_os_error().into_pyexception(vm)
ErrnoErr(e, native) == IntoPyException(OsError(e.raw[1]), native)

\* os_unimpl
OsUnimpl(func, native) ==
    Raised("OSError", func \o " is not supported on this platform", native)

(***************************************************************************)
(* Paths: OutputMode, PyPathLike and its construction from an argument.    *)
(* An argument is [tag, b, inner]: a str or bytes object with content b,   *)
(* an int, or an object whose __fspath__ returns an object of type inner   *)
(* with content b.                                                         *)
(***************************************************************************)
HasNul(b) == \E i \in 1..Len(b) : b[i] = ByteNUL
IsUtf8(b) == \A i \in 1..Len(b) : b[i] # ByteBad

PyStr(b) == [tag |-> "str", b |-> b, inner |-> "-"]
PyBytes(b) == [tag |-> "bytes", b |-> b, inner |-> "-"]
PyIntObj == [tag |-> "int", b |-> <<>>, inner |-> "-"]
PyFspath(inner, b) == [tag |-> "pathlike", b |-> b, inner |-> inner]
PyMissing == [tag |-> "missing", b |-> <<>>, inner |-> "-"]

\* OutputMode::process_path
\* Mutant of ProcessPath: the mode is ignored and text is produced.
ProcessPathAlwaysString(p, mode, path) ==
    IF IsUtf8(path)
    THEN [err |-> "none", msg |-> "", val |-> PyStr(path)]
    ELSE [err |-> "UnicodeDecodeError",
          msg |-> "Can't convert OS path to valid UTF-8 string", val |-> NoVal]

ProcessPath(p, mode, path) ==
    LET path_as_string ==
            IF IsUtf8(path)
            THEN [err |-> "none", msg |-> "", val |-> PyStr(path)]
            ELSE [err |-> "UnicodeDecodeError",
                  msg |-> "Can't convert OS path to valid UTF-8 string", val |-> NoVal]
    IN  IF mode = "String" THEN path_as_string
        ELSE IF IsWindows(p)
             THEN IF path_as_string.err = "none"
                  THEN [err |-> "none", msg |-> "", val |-> PyBytes(path_as_string.val.b)]
                  ELSE path_as_string
             ELSE [err |-> "none", msg |-> "", val |-> PyBytes(path)]

\* bytes_as_osstr
BytesAsOsStr(p, b) ==
    IF IsUnix(p) \/ IsUtf8(b)
    THEN [err |-> "none", msg |-> "", path |-> b]
    ELSE [err |-> "ValueError", msg |-> "Can't convert bytes to str for env function",
          path |-> <<>>]

PathLike(path, mode) == [err |-> "none", msg |-> "", path |-> path, mode |-> mode]
PathLikeErr(exc, msg) == [err |-> exc, msg |-> msg, path |-> <<>>, mode |-> "-"]

\* match1 of TryFromObject for PyPathLike: err "nomatch" stands for Ok(None)
Match1(p, tag, b) ==
    CASE tag = "str" -> PathLike(b, "String")
      [] tag = "bytes" ->
           LET os == BytesAsOsStr(p, b)
           IN  IF os.err = "none" THEN PathLike(os.path, "Bytes")
               ELSE PathLikeErr(os.err, os.msg)
      [] OTHER -> PathLikeErr("nomatch", "")

\* TryFromObject for PyPathLike
TryFromObject(p, obj) ==
    LET first == Match1(p, obj.tag, obj.b)
    IN  IF first.err # "nomatch" THEN first
        ELSE IF obj.tag # "pathlike"
        THEN PathLikeErr("TypeError", "expected str, bytes or os.PathLike object")
        ELSE LET second == Match1(p, obj.inner, obj.b)
             IN  IF second.err # "nomatch" THEN second
                 ELSE PathLikeErr("TypeError", "expected __fspath__() to return str or bytes")

\* Either<PyPathLike, i32>: the path if the argument is one, else the int
TryEitherPathFd(p, obj) ==
    LET a == TryFromObject(p, obj)
    IN  IF a.err = "none" THEN [err |-> "none", msg |-> "", which |-> "A", path |-> a]
        ELSE IF obj.tag = "int"
        THEN [err |-> "none", msg |-> "", which |-> "B", path |-> a]
        ELSE [err |-> "TypeError", msg |-> "must be either path or int", which |-> "-",
              path |-> a]

\* PyPathLike::new_str
NewStr(path) == PathLike(path, "String")

\* PyPathLike::into_cstring and to_widecstring: the error, "none" when there is none
IntoCString(path) == IF HasNul(path) THEN "ValueError" ELSE "none"
ToWideCString(path) == IF HasNul(path) THEN "ValueError" ELSE "none"
EmbeddedNul(native) == Raised("ValueError", "embedded null character", native)

\* A std::fs or std::env function given a path: it turns the path into a C
\* string first and fails with InvalidInput, issuing no call, on a NUL.
StdPathError(paths) == \E i \in 1..Len(paths) : HasNul(paths[i])
InvalidInputError == SimpleError("InvalidInput")

\* an io::Result<()> from a std function on `paths`, the native result being nat
StdCall(name, paths, nat, before) ==
    IF StdPathError(paths) THEN IntoPyException(InvalidInputError, before)
    ELSE IF nat.ok THEN Returned(UnitVal, Append(before, name))
    ELSE IntoPyException(nat.err, Append(before, name))

(***************************************************************************)
(* DirFd<AVAILABLE> and its FromArgs.  The keyword is [tag, v]: missing,   *)
(* None, an int with value v, or an object that is no index.               *)
(***************************************************************************)
AT_FDCWD == -100
FdWidth == 4
PyIntWidth == 8

DEFAULT_DIR_FD == IntLimbs(AT_FDCWD, FdWidth)

KwMissing == [tag |-> "missing", v |-> <<>>]
KwNone == [tag |-> "none", v |-> <<>>]
KwInt(v) == [tag |-> "int", v |-> v]
KwOther == [tag |-> "other", v |-> <<>>]

DirFdOk(available, fd) ==
    [err |-> "none", msg |-> "", fds |-> IF available = 1 THEN <<fd>> ELSE <<>>]
DirFdErr(exc, msg) == [err |-> exc, msg |-> msg, fds |-> <<>>]

\* Mutant of DirFdFromArgs: the capability is not looked at.
DirFdFromArgsNoGate(available, kw) ==
    CASE kw.tag \in {"missing", "none"} -> DirFdOk(available, DEFAULT_DIR_FD)
      [] kw.tag = "int" ->
           IF ~FitsW(kw.v, FdWidth)
           THEN DirFdErr("OverflowError", "Python int too large to convert to Rust i32")
           ELSE DirFdOk(available, SExt(kw.v, FdWidth))
      [] OTHER -> DirFdErr("TypeError", "argument should be integer or None")

DirFdFromArgs(available, kw) ==
    LET fd == CASE kw.tag \in {"missing", "none"} -> DirFdOk(1, DEFAULT_DIR_FD)
                [] kw.tag = "int" ->
                     IF ~FitsW(kw.v, FdWidth)
                     THEN DirFdErr("OverflowError",
                                   "Python int too large to convert to Rust i32")
                     ELSE DirFdOk(1, SExt(kw.v, FdWidth))
                [] OTHER -> DirFdErr("TypeError", "argument should be integer or None")
    IN  IF fd.err # "none" THEN fd
        ELSE IF available = 0 /\ fd.fds[1] # DEFAULT_DIR_FD
        THEN DirFdErr("NotImplementedError", "dir_fd unavailable on this platform")
        ELSE DirFdOk(available, fd.fds[1])

\* DirFd<1>::fd and get_opt (a sequence of at most one fd stands for Option)
DirFdFd(dir_fd) == dir_fd.fds[1]
DirFdGetOpt(dir_fd) == IF DirFdFd(dir_fd) = DEFAULT_DIR_FD THEN <<>> ELSE <<DirFdFd(dir_fd)>>

(***************************************************************************)
(* The module's functions.  Each takes the target p and the call c (its    *)
(* arguments, and what the file system would answer: c.nat, the result of  *)
(* the native call if one is issued; c.stream, c.target, c.times, the data *)
(* it would deliver) and gives the result of the call.                     *)
(***************************************************************************)
NatOk == [ok |-> TRUE, err |-> NoIoError]
NatErr(e) == [ok |-> FALSE, err |-> e]

ArgErr(r) == Raised(r.err, r.msg, <<>>)

\* an io::Result<Fd> mapped to the descriptor or the exception
FdResult(name, nat) ==
    IF nat.ok THEN Returned([tag |-> "fd"], <<name>>)
    ELSE IntoPyException(nat.err, <<name>>)

\* a libc call returning < 0 on failure, the error then taken from errno
LibcResult(name, nat) ==
    IF nat.ok THEN Returned(UnitVal, <<name>>) ELSE ErrnoErr(nat.err, <<name>>)

Open(p, c) ==
    LET name == TryFromObject(p, c.path)
        dir_fd == DirFdFromArgs(Bit(OPEN_DIR_FD(p)), c.dir_fd)
    IN  IF name.err # "none" THEN ArgErr(name)
        ELSE IF dir_fd.err # "none" THEN ArgErr(dir_fd)
        ELSE IF IsWindows(p)
        THEN IF ToWideCString(name.path) # "none" THEN EmbeddedNul(<<>>)
             ELSE FdResult("_wopen", c.nat)
        ELSE IF IntoCString(name.path) # "none" THEN EmbeddedNul(<<>>)
        ELSE IF p # "redox" /\ DirFdGetOpt(dir_fd) # <<>> THEN FdResult("openat", c.nat)
        ELSE FdResult("open", c.nat)

Remove(p, c) ==
    LET path == TryFromObject(p, c.path)
        dir_fd == DirFdFromArgs(0, c.dir_fd)
    IN  IF path.err # "none" THEN ArgErr(path)
        ELSE IF dir_fd.err # "none" THEN ArgErr(dir_fd)
        ELSE LET probe == IF IsWindows(p) /\ ~HasNul(path.path)
                          THEN <<"symlink_metadata">> ELSE <<>>
                 is_junction == IsWindows(p) /\ ~HasNul(path.path) /\ c.junction
             IN  StdCall(IF is_junction THEN "remove_dir" ELSE "remove_file",
                         <<path.path>>, c.nat, probe)

Mkdir(p, c) ==
    LET path == TryFromObject(p, c.path)
        dir_fd == DirFdFromArgs(Bit(MKDIR_DIR_FD(p)), c.dir_fd)
    IN  IF path.err # "none" THEN ArgErr(path)
        ELSE IF dir_fd.err # "none" THEN ArgErr(dir_fd)
        ELSE IF IsWindows(p)
        THEN IF ToWideCString(path.path) # "none" THEN EmbeddedNul(<<>>)
             ELSE LibcResult("CreateDirectoryW", c.nat)
        ELSE IF IntoCString(path.path) # "none" THEN EmbeddedNul(<<>>)
        ELSE IF p # "redox" /\ DirFdGetOpt(dir_fd) # <<>> THEN LibcResult("mkdirat", c.nat)
        ELSE LibcResult("mkdir", c.nat)

Rmdir(p, c) ==
    LET path == TryFromObject(p, c.path)
        dir_fd == DirFdFromArgs(0, c.dir_fd)
    IN  IF path.err # "none" THEN ArgErr(path)
        ELSE IF dir_fd.err # "none" THEN ArgErr(dir_fd)
        ELSE StdCall("remove_dir", <<path.path>>, c.nat, <<>>)

\* the names of a stream, each through process_path; the first error ends it
RECURSIVE CollectNames(_, _, _)
CollectNames(p, mode, stream) ==
    IF stream = <<>> THEN [err |-> "none", msg |-> "", items |-> <<>>]
    ELSE IF Head(stream).tag = "err"
    THEN [err |-> "io", msg |-> "", items |-> <<>>]
    ELSE LET name == ProcessPath(p, mode, Head(stream).name)
             rest == CollectNames(p, mode, Tail(stream))
         IN  IF name.err # "none" THEN [err |-> name.err, msg |-> name.msg, items |-> <<>>]
             ELSE IF rest.err # "none" THEN rest
             ELSE [err |-> "none", msg |-> "", items |-> <<name.val>> \o rest.items]

ReadError == OsError(EIO)

SkipDots(stream) ==
    SelectSeq(stream, LAMBDA it : ~(it.tag = "ok" /\ it.name \in {<<ByteDot>>, <<ByteDot, ByteDot>>}))

ListResult(p, mode, stream, native, nix) ==
    LET names == CollectNames(p, mode, stream)
    IN  CASE names.err = "none" -> Returned([tag |-> "list", items |-> names.items], native)
          [] names.err = "io" ->
               IF nix THEN NixIntoPyException(NixSys(ReadError), native)
               ELSE IntoPyException(ReadError, native)
          [] OTHER -> Raised(names.err, names.msg, native)

Listdir(p, c) ==
    LET path == TryEitherPathFd(p, c.path)
    IN  IF path.err # "none" THEN ArgErr(path)
        ELSE IF path.which = "A"
        THEN IF StdPathError(<<path.path.path>>)
             THEN IntoPyException(InvalidInputError, <<>>)
             ELSE IF ~c.nat.ok THEN IntoPyException(c.nat.err, <<"read_dir">>)
             ELSE ListResult(p, path.path.mode, c.stream, <<"read_dir">>, FALSE)
        ELSE IF ~LISTDIR_FD(p)
        THEN Raised("NotImplementedError", "can't pass fd to listdir on this platform", <<>>)
        ELSE IF ~c.nat.ok THEN NixIntoPyException(NixSys(c.nat.err), <<"dup">>)
        ELSE ListResult(p, "String",
                        SkipDots(<<OkItem(<<ByteDot>>), OkItem(<<ByteDot, ByteDot>>)>>
                                   \o c.stream),
                        <<"dup", "fdopendir">>, TRUE)

Readlink(p, c) ==
    LET path == TryFromObject(p, c.path)
        dir_fd == DirFdFromArgs(0, c.dir_fd)
    IN  IF path.err # "none" THEN ArgErr(path)
        ELSE IF dir_fd.err # "none" THEN ArgErr(dir_fd)
        ELSE IF StdPathError(<<path.path>>) THEN IntoPyException(InvalidInputError, <<>>)
        ELSE IF ~c.nat.ok THEN IntoPyException(c.nat.err, <<"read_link">>)
        ELSE LET target == ProcessPath(p, path.mode, c.target)
             IN  IF target.err # "none" THEN Raised(target.err, target.msg, <<"read_link">>)
                 ELSE Returned(target.val, <<"read_link">>)

Scandir(p, c) ==
    LET path == IF c.path.tag = "missing" THEN NewStr(<<ByteDot>>)
                ELSE TryFromObject(p, c.path)
    IN  IF path.err # "none" THEN ArgErr(path)
        ELSE IF StdPathError(<<path.path>>) THEN IntoPyException(InvalidInputError, <<>>)
        ELSE IF ~c.nat.ok THEN IntoPyException(c.nat.err, <<"read_dir">>)
        ELSE Returned([tag |-> "ScandirIterator", entries |-> c.stream,
                       exhausted |-> FALSE, mode |-> path.mode, root |-> path.path],
                      <<"read_dir">>)

Chdir(p, c) ==
    LET path == TryFromObject(p, c.path)
    IN  IF path.err # "none" THEN ArgErr(path)
        ELSE StdCall("set_current_dir", <<path.path>>, c.nat, <<>>)

Fspath(p, c) ==
    LET path == TryFromObject(p, c.path)
    IN  IF path.err # "none" THEN ArgErr(path)
        ELSE LET r == ProcessPath(p, path.mode, path.path)
             IN  IF r.err # "none" THEN Raised(r.err, r.msg, <<>>)
                 ELSE Returned(r.val, <<>>)

Rename(p, c) ==
    LET src == TryFromObject(p, c.path)
        dst == TryFromObject(p, c.path2)
    IN  IF src.err # "none" THEN ArgErr(src)
        ELSE IF dst.err # "none" THEN ArgErr(dst)
        ELSE StdCall("rename", <<src.path, dst.path>>, c.nat, <<>>)

Link(p, c) ==
    LET src == TryFromObject(p, c.path)
        dst == TryFromObject(p, c.path2)
    IN  IF src.err # "none" THEN ArgErr(src)
        ELSE IF dst.err # "none" THEN ArgErr(dst)
        ELSE StdCall("hard_link", <<src.path, dst.path>>, c.nat, <<>>)

\* posix::symlink
PosixSymlink(p, c) ==
    LET src == TryFromObject(p, c.path)
        dst == TryFromObject(p, c.path2)
        dir_fd == DirFdFromArgs(Bit(SYMLINK_DIR_FD(p)), c.dir_fd)
    IN  IF src.err # "none" THEN ArgErr(src)
        ELSE IF dst.err # "none" THEN ArgErr(dst)
        ELSE IF dir_fd.err # "none" THEN ArgErr(dir_fd)
        ELSE IF IntoCString(src.path) # "none" THEN EmbeddedNul(<<>>)
        ELSE IF IntoCString(dst.path) # "none" THEN EmbeddedNul(<<>>)
        ELSE IF p # "redox"
        THEN IF c.nat.ok THEN Returned(UnitVal, <<"symlinkat">>)
             ELSE NixIntoPyException(NixSys(c.nat.err), <<"symlinkat">>)
        ELSE LibcResult("symlink", c.nat)

\* nt::symlink
NtSymlink(p, c) ==
    LET src == TryFromObject(p, c.path)
        dst == TryFromObject(p, c.path2)
        dir_fd == DirFdFromArgs(0, c.dir_fd)
    IN  IF src.err # "none" THEN ArgErr(src)
        ELSE IF dst.err # "none" THEN ArgErr(dst)
        ELSE IF dir_fd.err # "none" THEN ArgErr(dir_fd)
        ELSE LET probed == ~c.target_is_directory /\ ~StdPathError(<<src.path, dst.path>>)
                 probe == IF probed THEN <<"symlink_metadata">> ELSE <<>>
                 dir == c.target_is_directory \/ (probed /\ c.junction)
             IN  StdCall(IF dir THEN "symlink_dir" ELSE "symlink_file",
                         <<src.path, dst.path>>, c.nat, probe)

\* minor::symlink
MinorSymlink(p, c) ==
    LET src == TryFromObject(p, c.path)
        dst == TryFromObject(p, c.path2)
        dir_fd == DirFdFromArgs(0, c.dir_fd)
    IN  IF src.err # "none" THEN ArgErr(src)
        ELSE IF dst.err # "none" THEN ArgErr(dst)
        ELSE IF dir_fd.err # "none" THEN ArgErr(dir_fd)
        ELSE OsUnimpl("os.symlink", <<>>)

\* minor::access: the path is a PyStrRef
MinorAccess(p, c) ==
    IF c.path.tag # "str" THEN Raised("TypeError", "expected str", <<>>)
    ELSE OsUnimpl("os.access", <<>>)

\* What a chmod leaves behind, attached to the outcome as field fs: the
\* object whose permissions were set ("file": the path itself, no link;
\* "target": the file the symlink at the path points to) and the
\* permissions given to it.  c.x.mode is the mode argument, c.x.islink
\* whether the path is a symlink, c.x.dir whether it is a directory.
\* fs::set_permissions on Unix is chmod(2), which follows a symlink.
SetPermissions(c, perm) ==
    [object |-> IF c.x.islink THEN "target" ELSE "file", perm |-> perm]

\* posix::chmod
PosixChmod(p, c) ==
    LET path == TryFromObject(p, c.path)
        dir_fd == DirFdFromArgs(0, c.dir_fd)
        meta == IF c.follow THEN "metadata" ELSE "symlink_metadata"
    IN  IF path.err # "none" THEN ArgErr(path)
        ELSE IF dir_fd.err # "none" THEN ArgErr(dir_fd)
        ELSE IF StdPathError(<<path.path>>) THEN IntoPyException(InvalidInputError, <<>>)
        ELSE IF ~c.nat.ok THEN IntoPyException(c.nat.err, <<meta>>)
        ELSE [fs |-> SetPermissions(c, [mode |-> c.x.mode])]
             @@ Returned(UnitVal, <<meta, "set_permissions">>)

\* nt::chmod: permissions.set_readonly(mode & S_IWRITE != 0)
S_IWRITE == 128
NtChmod(p, c) ==
    LET path == TryFromObject(p, c.path)
        dir_fd == DirFdFromArgs(0, c.dir_fd)
        meta == IF c.follow THEN "metadata" ELSE "symlink_metadata"
    IN  IF path.err # "none" THEN ArgErr(path)
        ELSE IF dir_fd.err # "none" THEN ArgErr(dir_fd)
        ELSE IF StdPathError(<<path.path>>) THEN IntoPyException(InvalidInputError, <<>>)
        ELSE IF ~c.nat.ok THEN IntoPyException(c.nat.err, <<meta>>)
        ELSE [fs |-> SetPermissions(c, [readonly |-> (c.x.mode \div S_IWRITE) % 2 # 0])]
             @@ Returned(UnitVal, <<meta, "set_permissions">>)

\* st_mode of the Windows meta_to_stat
S_IFDIR == 16384
S_IFREG == 32768
StMode(is_dir, readonly) ==
    (IF is_dir THEN S_IFDIR + 73 ELSE S_IFREG) + (IF readonly THEN 292 ELSE 438)

(***************************************************************************)
(* access.  c.x holds the request mask, the file's owner, group and mode   *)
(* bits as fs::metadata would report them, the caller's uid and the answer *)
(* of getgroups (on Windows: the read-only and directory attributes).      *)
(***************************************************************************)
HasBit(m, b) == (m \div b) % 2 = 1

BoolVal(v) == [tag |-> "bool", v |-> v]

\* get_permissions
GetPermissions(mode) ==
    [is_readable |-> HasBit(mode, 4), is_writable |-> HasBit(mode, 2),
     is_executable |-> HasBit(mode, 1)]

\* getgroups: the group list or the nix error
GetGroups(p, c) ==
    IF p = "redox" THEN [ok |-> FALSE, err |-> [kind |-> "UnsupportedOperation", raw |-> <<>>],
                         ids |-> {}]
    ELSE IF ~c.x.groups.ok THEN [ok |-> FALSE, err |-> NixSys(c.x.groups.err), ids |-> {}]
    ELSE [ok |-> TRUE, err |-> NoIoError, ids |-> c.x.groups.ids]

\* Mutant of GetRightPermission: the group triple is never chosen.
GetRightPermissionNoGroup(p, mode, file_owner, file_group, c) ==
    LET groups_ids == GetGroups(p, c)
    IN  IF ~groups_ids.ok THEN [ok |-> FALSE, err |-> groups_ids.err, perm |-> NoVal]
        ELSE [ok |-> TRUE, err |-> NoIoError,
              perm |-> IF file_owner = c.x.uid THEN GetPermissions((mode \div 64) % 8)
                       ELSE GetPermissions(mode % 8)]

GetRightPermission(p, mode, file_owner, file_group, c) ==
    LET owner_permissions == GetPermissions((mode \div 64) % 8)
        group_permissions == GetPermissions((mode \div 8) % 8)
        others_permissions == GetPermissions(mode % 8)
        user_id == c.x.uid
        groups_ids == GetGroups(p, c)
    IN  IF ~groups_ids.ok THEN [ok |-> FALSE, err |-> groups_ids.err, perm |-> NoVal]
        ELSE [ok |-> TRUE, err |-> NoIoError,
              perm |-> IF file_owner = user_id THEN owner_permissions
                       ELSE IF file_group \in groups_ids.ids THEN group_permissions
                       ELSE others_permissions]

\* Mutant of PosixAccess: the existence-only request goes on to the permission bits.
PosixAccessNoFastPath(p, c) ==
    LET path == TryFromObject(p, c.path)
        mode == c.x.mode
    IN  IF path.err # "none" THEN ArgErr(path)
        ELSE IF mode >= 8 THEN Raised("ValueError", "One of the flags is wrong", <<>>)
        ELSE IF HasNul(path.path) THEN IntoPyException(InvalidInputError, <<>>)
        ELSE IF ~c.nat.ok THEN IntoPyException(c.nat.err, <<"metadata">>)
        ELSE LET perm == GetRightPermission(p, c.x.st_mode, c.x.st_uid, c.x.st_gid, c)
                 native == <<"metadata", "getuid", "getgroups">>
             IN  IF ~perm.ok THEN NixIntoPyException(perm.err, native)
                 ELSE Returned(BoolVal(/\ (~HasBit(mode, 4) \/ perm.perm.is_readable)
                                       /\ (~HasBit(mode, 2) \/ perm.perm.is_writable)
                                       /\ (~HasBit(mode, 1) \/ perm.perm.is_executable)),
                               native)

\* posix::access
PosixAccess(p, c) ==
    LET path == TryFromObject(p, c.path)
        mode == c.x.mode
        nul == HasNul(path.path)
        metadata_is_ok == ~nul /\ c.nat.ok
        probed == IF nul THEN <<>> ELSE <<"metadata">>
    IN  IF path.err # "none" THEN ArgErr(path)
        ELSE IF mode >= 8
        THEN Raised("ValueError",
                    "One of the flags is wrong, there are only 4 possibilities F_OK, R_OK, W_OK and X_OK",
                    <<>>)
        ELSE IF mode = 0 THEN Returned(BoolVal(metadata_is_ok), probed)
        ELSE IF nul THEN IntoPyException(InvalidInputError, probed)
        ELSE IF ~c.nat.ok THEN IntoPyException(c.nat.err, probed)
        ELSE LET perm == GetRightPermission(p, c.x.st_mode, c.x.st_uid, c.x.st_gid, c)
                 native == probed \o <<"getuid", "getgroups">>
             IN  IF ~perm.ok THEN NixIntoPyException(perm.err, native)
                 ELSE Returned(BoolVal(/\ (~HasBit(mode, 4) \/ perm.perm.is_readable)
                                       /\ (~HasBit(mode, 2) \/ perm.perm.is_writable)
                                       /\ (~HasBit(mode, 1) \/ perm.perm.is_executable)),
                               native)

\* nt::access
NtAccess(p, c) ==
    LET path == TryFromObject(p, c.path)
    IN  IF path.err # "none" THEN ArgErr(path)
        ELSE IF ToWideCString(path.path) # "none" THEN EmbeddedNul(<<>>)
        ELSE Returned(BoolVal(/\ c.nat.ok
                              /\ \/ ~HasBit(c.x.mode, 2)
                                 \/ ~c.x.readonly
                                 \/ c.x.isdir),
                      <<"GetFileAttributesW">>)

(***************************************************************************)
(* stat.  A native timestamp is [sec, nsec], two signed 64-bit fields of   *)
(* libc::stat; a SystemTime of Windows is [before, secs, nanos], the       *)
(* duration to the epoch and the side it lies on.  Of the record only the  *)
(* timestamps are modelled, and of the result the integer fields of them.  *)
(***************************************************************************)
TimeWidth == 8
NsecWidth == 4
NsWidth == 16
NANOS_PER_SEC == 1000000000

\* Duration: whole seconds (u64) and nanoseconds below a second (u32)
Duration(secs, nanos) == [secs |-> secs, nanos |-> nanos]

\* sec and nsec of meta_to_stat
MetaToStatTime(t) ==
    [sec  |-> IF t.before THEN NegW(t.secs) ELSE t.secs,
     nsec |-> IF t.before THEN NegW(t.nanos) ELSE t.nanos]

MetaToStat(times) == [i \in 1..Len(times) |-> MetaToStatTime(times[i])]

\* Mutant of ToNs: the product and the sum in the width of the seconds.
ToNsNarrow(t) ==
    SExt(AddW(MulW(t.sec, NatLimbs(NANOS_PER_SEC, TimeWidth)), SExt(t.nsec, TimeWidth)),
         NsWidth)

\* to_ns of from_stat: s as i128 * NANOS_PER_SEC as i128 + ns as i128
ToNs(t) ==
    AddW(MulW(SExt(t.sec, NsWidth), ZExt(NatLimbs(NANOS_PER_SEC, NsecWidth), NsWidth)),
         SExt(t.nsec, NsWidth))

\* StatResult::from_stat: __st_*time_int and st_*time_ns of the three timestamps
FromStat(stat) ==
    [i \in 1..Len(stat) |-> [int |-> SExt(stat[i].sec, NsWidth), ns |-> ToNs(stat[i])]]

StatOk(stat, native, subject) ==
    [err |-> "none", e |-> NoIoError, stat |-> stat, native |-> native, subject |-> subject]
StatErr(err, e, native) ==
    [err |-> err, e |-> e, stat |-> <<>>, native |-> native, subject |-> "-"]

\* stat_inner; err "nul" stands for Ok(None).  The subject is the file the
\* native call reports on: the link itself, the link's target, or the
\* descriptor's file.
StatInner(p, file, dir_fd, follow, c) ==
    IF IsWindows(p)
    THEN IF file.which = "A"
         THEN LET name == IF follow THEN "metadata" ELSE "symlink_metadata"
              IN  IF StdPathError(<<file.path.path>>)
                  THEN StatErr("io", InvalidInputError, <<>>)
                  ELSE IF ~c.nat.ok THEN StatErr("io", c.nat.err, <<name>>)
                  ELSE StatOk(MetaToStat(c.times), <<name>>,
                              IF follow THEN "target" ELSE "link")
         ELSE IF ~c.nat.ok THEN StatErr("io", c.nat.err, <<"as_rust_file">>)
              ELSE StatOk(MetaToStat(c.times), <<"as_rust_file", "metadata">>, "fd")
    ELSE IF file.which = "A"
         THEN IF HasNul(file.path.path) THEN StatErr("nul", NoIoError, <<>>)
              ELSE LET flags == IF follow THEN <<>>
                                ELSE IF p # "redox" THEN <<"AT_SYMLINK_NOFOLLOW">>
                                ELSE <<>>
                       fd == DirFdFd(dir_fd)
                       at == flags # <<>> \/ fd # DEFAULT_DIR_FD
                       name == IF ~at THEN "stat"
                               ELSE IF flags # <<>> THEN "fstatat(AT_SYMLINK_NOFOLLOW)"
                               ELSE "fstatat(0)"
                   IN  IF ~c.nat.ok THEN StatErr("io", c.nat.err, <<name>>)
                       ELSE StatOk(c.times, <<name>>,
                                   IF flags # <<>> THEN "link" ELSE "target")
         ELSE IF ~c.nat.ok THEN StatErr("io", c.nat.err, <<"fstat">>)
              ELSE StatOk(c.times, <<"fstat">>, "fd")

StatWith(p, c, follow) ==
    LET file == TryEitherPathFd(p, c.path)
        dir_fd == DirFdFromArgs(Bit(STAT_DIR_FD(p)), c.dir_fd)
    IN  IF file.err # "none" THEN ArgErr(file)
        ELSE IF dir_fd.err # "none" THEN ArgErr(dir_fd)
        ELSE LET r == StatInner(p, file, dir_fd, follow, c)
             IN  CASE r.err = "io" -> IntoPyException(r.e, r.native)
                   [] r.err = "nul" -> EmbeddedNul(r.native)
                   [] OTHER ->
                        Returned([tag |-> "stat_result", subject |-> r.subject,
                                  stat |-> r.stat, times |-> FromStat(r.stat)],
                                 r.native)

Stat(p, c) == StatWith(p, c, c.follow)

Lstat(p, c) == StatWith(p, c, FALSE)

(***************************************************************************)
(* What a method of the iterator returns.                                  *)
(***************************************************************************)
RetNone == [kind |-> "none", name |-> <<>>, mode |-> "-"]
RetStop == [kind |-> "StopIteration", name |-> <<>>, mode |-> "-"]
RetOSError == [kind |-> "OSError", name |-> <<>>, mode |-> "-"]
RetSelf == [kind |-> "self", name |-> <<>>, mode |-> "-"]
RetUnit == [kind |-> "unit", name |-> <<>>, mode |-> "-"]
RetDirEntry(name, mode) == [kind |-> "DirEntry", name |-> name, mode |-> mode]

(***************************************************************************)
(* ScandirIterator: close, __enter__, __exit__ and PyIter::next.  next is  *)
(* three steps: the load of exhausted; the write lock taken and the stream *)
(* read; the match arm, at whose end the lock guard is dropped.            *)
(***************************************************************************)
\* Mutant of Close: the call returns without storing the flag.
CloseNoStore(t) ==
    /\ pc[t] = "idle"
    /\ closed' = TRUE
    /\ ret' = [ret EXCEPT ![t] = RetUnit]
    /\ UNCHANGED <<entries, entriesLock, exhausted, iterMode, iterDir, pc, local>>

Close(t) ==
    /\ pc[t] = "idle"
    /\ exhausted' = TRUE
    /\ closed' = TRUE
    /\ ret' = [ret EXCEPT ![t] = RetUnit]
    /\ UNCHANGED <<entries, entriesLock, iterMode, iterDir, pc, local>>

Enter(t) ==
    /\ pc[t] = "idle"
    /\ ret' = [ret EXCEPT ![t] = RetSelf]
    /\ UNCHANGED <<entries, entriesLock, exhausted, iterMode, iterDir, pc, local, closed>>

Exit(t) == Close(t)

\* Mutant of NextLoad: the flag is not looked at before the stream is read.
NextLoadNoCheck(t) ==
    /\ pc[t] = "idle"
    /\ ret' = [ret EXCEPT ![t] = RetNone]
    /\ pc' = [pc EXCEPT ![t] = "write"]
    /\ UNCHANGED <<entries, entriesLock, exhausted, iterMode, iterDir, local, closed>>

NextLoad(t) ==
    /\ pc[t] = "idle"
    /\ IF exhausted
       THEN /\ ret' = [ret EXCEPT ![t] = RetStop]
            /\ pc' = pc
       ELSE /\ ret' = [ret EXCEPT ![t] = RetNone]
            /\ pc' = [pc EXCEPT ![t] = "write"]
    /\ UNCHANGED <<entries, entriesLock, exhausted, iterMode, iterDir, local, closed>>

NextRead(t) ==
    /\ pc[t] = "write"
    /\ entriesLock = 0
    /\ entriesLock' = t
    /\ local' = [local EXCEPT ![t] = ReadDirNext(entries)]
    /\ entries' = ReadDirRest(entries)
    /\ pc' = [pc EXCEPT ![t] = "match"]
    /\ UNCHANGED <<exhausted, iterMode, iterDir, ret, closed>>

NextMatch(t) ==
    /\ pc[t] = "match"
    /\ entriesLock = t
    /\ CASE local[t].tag = "ok" ->
              /\ ret' = [ret EXCEPT ![t] = RetDirEntry(local[t].name, iterMode)]
              /\ exhausted' = exhausted
         [] local[t].tag = "err" ->
              /\ ret' = [ret EXCEPT ![t] = RetOSError]
              /\ exhausted' = exhausted
         [] OTHER ->
              /\ ret' = [ret EXCEPT ![t] = RetStop]
              /\ exhausted' = TRUE
    /\ entriesLock' = 0
    /\ local' = [local EXCEPT ![t] = NoItem]
    /\ pc' = [pc EXCEPT ![t] = "idle"]
    /\ UNCHANGED <<entries, iterMode, iterDir, closed>>

\* The iterator as scandir() builds it: the stream unread, exhausted false,
\* the mode that of the path ("." as text when the path is omitted).
IterInit ==
    /\ entries \in Streams
    /\ entriesLock = 0
    /\ exhausted = FALSE
    /\ iterMode = "String"
    /\ iterDir = [arg |-> PyMissing, root |-> <<ByteDot>>]
    /\ pc = [t \in Threads |-> "idle"]
    /\ local = [t \in Threads |-> NoItem]
    /\ ret = [t \in Threads |-> RetNone]
    /\ closed = FALSE

Init ==
    /\ IterInit
    /\ platform = "linux"
    /\ call = [op |-> "none"]
    /\ outcome = [exc |-> "none"]

Next ==
    \E t \in Threads :
        \/ Close(t) /\ UNCHANGED callVars
        \/ Enter(t) /\ UNCHANGED callVars
        \/ Exit(t) /\ UNCHANGED callVars
        \/ NextLoad(t) /\ UNCHANGED callVars
        \/ NextRead(t) /\ UNCHANGED callVars
        \/ NextMatch(t) /\ UNCHANGED callVars

Spec == Init /\ [][Next]_vars

(***************************************************************************)
(* DirEntry.name and DirEntry.path                                         *)
(***************************************************************************)
ByteSlash == 47

\* Path::join
Join(root, name) == IF root = <<>> THEN name ELSE root \o <<ByteSlash>> \o name

PathResult(r) ==
    IF r.err # "none" THEN Raised(r.err, r.msg, <<>>) ELSE Returned(r.val, <<>>)

DirEntryName(p, entry) == PathResult(ProcessPath(p, entry.mode, entry.name))

DirEntryPath(p, entry, root) ==
    PathResult(ProcessPath(p, entry.mode, Join(root, entry.name)))

(***************************************************************************)
(* Single calls.  A call is drawn with its target; one action per function *)
(* of the module computes its outcome.                                     *)
(***************************************************************************)
MaxPathLen == 2

PathBytes == SeqsUpTo({ByteNUL, ByteA, ByteBad}, MaxPathLen)

PathArgs ==
    {PyStr(b) : b \in {x \in PathBytes : IsUtf8(x)}}
    \cup {PyBytes(b) : b \in PathBytes}
    \cup {PyIntObj, PyFspath("str", <<ByteA>>), PyFspath("bytes", <<ByteA, ByteNUL>>),
          PyFspath("int", <<>>)}

I32Min == <<0, 0, 0, 128>>
I64Max == <<255, 255, 255, 255, 255, 255, 255, 127>>
I64Min == <<0, 0, 0, 0, 0, 0, 0, 128>>

DirFdArgs ==
    {KwMissing, KwNone, KwOther,
     KwInt(IntLimbs(AT_FDCWD, PyIntWidth)), KwInt(IntLimbs(3, PyIntWidth)),
     KwInt(SExt(I32Min, PyIntWidth)), KwInt(I64Max)}

NatResults == {NatOk} \cup {NatErr(e) : e \in OsErrors}

\* native timestamps: the epoch, either side of it, and the ends of time_t
PosixTime(sec, nsec) == [sec |-> sec, nsec |-> IntLimbs(nsec, TimeWidth)]
PosixTimes ==
    {PosixTime(IntLimbs(0, TimeWidth), 0),
     PosixTime(IntLimbs(1, TimeWidth), NANOS_PER_SEC - 1),
     PosixTime(IntLimbs(-1, TimeWidth), 1),
     PosixTime(I64Max, NANOS_PER_SEC - 1),
     PosixTime(I64Min, 0)}

SystemTime(before, secs, nanos) ==
    [before |-> before, secs |-> secs, nanos |-> NatLimbs(nanos, NsecWidth)]
SystemTimes ==
    {SystemTime(FALSE, NatLimbs(0, TimeWidth), 0),
     SystemTime(FALSE, NatLimbs(1, TimeWidth), NANOS_PER_SEC - 1),
     SystemTime(TRUE, NatLimbs(0, TimeWidth), 1),
     SystemTime(TRUE, NatLimbs(1, TimeWidth), NANOS_PER_SEC - 1),
     SystemTime(TRUE, MulW(NatLimbs(116444736, TimeWidth), NatLimbs(100, TimeWidth)), 0)}

NativeTimes(p) == IF IsWindows(p) THEN SystemTimes ELSE PosixTimes
TimeTriples(p) == {<<a, m, c>> : a \in NativeTimes(p), m \in NativeTimes(p),
                                 c \in NativeTimes(p)}
DefaultTimes(p) == LET t == CHOOSE x \in NativeTimes(p) : TRUE IN <<t, t, t>>

\* what utime reads beside its arguments: mode is unused by it
UtimeX(d, n) == [mode |-> 0, clock |-> <<5, 6>>, d |-> d, n |-> n]

ChmodX(mode, islink, dir) == [mode |-> mode, islink |-> islink, dir |-> dir]

DefaultX == UtimeX(<<Duration(NatLimbs(0, TimeWidth), 0), Duration(NatLimbs(0, TimeWidth), 0)>>,
                   <<NatLimbs(0, NsWidth), NatLimbs(0, NsWidth)>>)

BaseCall(p, op) ==
    [op |-> op, path |-> PyStr(<<ByteA>>), path2 |-> PyStr(<<ByteA>>),
     dir_fd |-> KwMissing, follow |-> TRUE, nat |-> NatOk, stream |-> <<>>,
     target |-> <<ByteA>>, times |-> DefaultTimes(p), utimes |-> <<>>, uns |-> <<>>,
     junction |-> FALSE, target_is_directory |-> FALSE, e |-> NoIoError,
     entry |-> RetNone, x |-> IF op = "utime" THEN DefaultX
           ELSE IF op \in {"posix.chmod", "nt.chmod"} THEN ChmodX(0, FALSE, FALSE)
           ELSE [mode |-> 0]]

ArgCalls(p, op) ==
    {[BaseCall(p, op) EXCEPT !.path = a, !.dir_fd = d] : a \in PathArgs, d \in DirFdArgs}
Arg2Calls(p, op) ==
    {[BaseCall(p, op) EXCEPT !.path2 = a] : a \in PathArgs}
NatCalls(p, op) ==
    {[BaseCall(p, op) EXCEPT !.nat = n, !.junction = j, !.target_is_directory = d] :
        n \in NatResults, j \in BOOLEAN, d \in BOOLEAN}
FollowCalls(p, op) ==
    {[BaseCall(p, op) EXCEPT !.path = a, !.dir_fd = d, !.follow = f, !.nat = n] :
        a \in {PyStr(<<ByteA>>), PyIntObj},
        d \in {KwMissing, KwInt(IntLimbs(3, PyIntWidth))},
        f \in BOOLEAN, n \in {NatOk, NatErr(OsError(ENOENT))}}
TimesCalls(p, op) ==
    {[BaseCall(p, op) EXCEPT !.times = t] : t \in TimeTriples(p)}
StreamCalls(p, op) ==
    {[BaseCall(p, op) EXCEPT !.path = a, !.stream = s] :
        a \in {PyStr(<<ByteA>>), PyBytes(<<ByteA>>), PyIntObj, PyMissing}, s \in Streams}
TargetCalls(p, op) ==
    {[BaseCall(p, op) EXCEPT !.path = a, !.target = t] :
        a \in {PyStr(<<ByteA>>), PyBytes(<<ByteA>>)}, t \in FileNames}
UtimeCalls(p, op) ==
    {[BaseCall(p, op) EXCEPT !.utimes = t, !.uns = n, !.follow = f, !.nat = r,
                             !.x = DefaultX] :
        t \in {<<>>, <<0>>, <<1>>, <<2>>, <<3>>}, n \in {<<>>, <<0>>, <<1>>, <<2>>, <<3>>},
        f \in BOOLEAN, r \in {NatOk, NatErr(OsError(ENOENT))}}
RaiseCalls(p) == {[BaseCall(p, "raise") EXCEPT !.e = e] : e \in IoErrors}

\* the functions the module has on target p
EveryTarget ==
    {"open", "mkdir", "remove", "rmdir", "listdir", "scandir", "readlink", "stat",
     "lstat", "chdir", "rename", "link", "utime", "fspath"}
HasFunction(p, op) ==
    \/ op \in EveryTarget
    \/ op \in {"posix.symlink", "posix.chmod"} /\ IsUnix(p)
    \/ op \in {"nt.symlink", "nt.chmod"} /\ IsWindows(p)
    \/ op \in {"minor.symlink", "minor.access"} /\ ~IsUnix(p) /\ ~IsWindows(p)

Functions(p) ==
    {op \in EveryTarget \cup {"posix.symlink", "posix.chmod", "nt.symlink", "nt.chmod",
                              "minor.symlink", "minor.access"} : HasFunction(p, op)}

CallsOf(p, op) ==
    ArgCalls(p, op) \cup NatCalls(p, op)
    \cup (IF op \in {"rename", "link", "posix.symlink", "nt.symlink", "minor.symlink"}
          THEN Arg2Calls(p, op) ELSE {})
    \cup (IF op \in {"stat", "lstat"} THEN FollowCalls(p, op) \cup TimesCalls(p, op) ELSE {})
    \cup (IF op \in {"posix.chmod", "nt.chmod"} THEN FollowCalls(p, op) ELSE {})
    \cup (IF op \in {"listdir", "scandir"} THEN StreamCalls(p, op) ELSE {})
    \cup (IF op = "readlink" THEN TargetCalls(p, op) ELSE {})
    \cup (IF op = "utime" THEN UtimeCalls(p, op) ELSE {})

\* access: masks 0..9 and 255; each triple of the file's mode 0, 3, 4 or 7;
\* the caller the owner or not, the file's group in the caller's groups or
\* not, or getgroups failing
\* chown: an id >= 0 is Some(id), -1 is None (leave unchanged), anything
\* below is refused; which is "A" for a path and "B" for a descriptor, whose
\* path is looked up under /proc/self/fd (c.x.link: the lookup succeeds).
\* The value returned records what was handed to fchownat.
\* uid and gid are isize (64-bit targets), kept as little-endian limbs; the
\* id handed to the native call is `id as u32`, the low UidWidth limbs.
IsizeWidth == 8
UidWidth == 4
Isize(n) == IntLimbs(n, IsizeWidth)
FromRaw(id) == SubSeq(id, 1, UidWidth)
OptId(id) == IF ~IsNegW(id) THEN <<FromRaw(id)>> ELSE <<>>

Chown(c, which, path, uid, gid, dir_fd, follow_symlinks) ==
    LET flag == IF follow_symlinks THEN "FollowSymlink" ELSE "NoFollowSymlink"
        set == [tag |-> "chown", uid |-> OptId(uid), gid |-> OptId(gid),
                flag |-> flag, dir_fd |-> DirFdGetOpt(dir_fd)]
        Fchownat(native) ==
            IF c.nat.ok THEN Returned(set, native)
            ELSE NixIntoPyException(NixSys(c.nat.err), native)
    IN  IF IsNegW(uid) /\ uid # Isize(-1)
        THEN Raised("OSError", "Specified uid is not valid.", <<>>)
        ELSE IF IsNegW(gid) /\ gid # Isize(-1)
        THEN Raised("OSError", "Specified gid is not valid.", <<>>)
        ELSE IF which = "A"
        THEN IF HasNul(path) THEN NixIntoPyException(NixInvalidPath, <<>>)
             ELSE Fchownat(<<"fchownat">>)
        ELSE IF ~c.x.link
        THEN Raised("OSError", "Cannot find path for specified fd", <<"read_link">>)
        ELSE Fchownat(<<"read_link", "fchownat">>)

\* the #[pyfunction] chown: arguments are converted in declaration order
PyChown(p, c) ==
    LET path == TryEitherPathFd(p, c.path)
        dir_fd == DirFdFromArgs(1, c.dir_fd)
    IN  IF path.err # "none" THEN ArgErr(path)
        ELSE IF dir_fd.err # "none" THEN ArgErr(dir_fd)
        ELSE Chown(c, path.which, path.path.path, c.x.uid, c.x.gid, dir_fd, c.follow)

Lchown(p, c) ==
    LET path == TryFromObject(p, c.path)
    IN  IF path.err # "none" THEN ArgErr(path)
        ELSE Chown(c, "A", path.path, c.x.uid, c.x.gid, DirFdFromArgs(1, KwMissing), FALSE)

Fchown(p, c) ==
    IF c.path.tag # "int"
    THEN Raised("TypeError", "an integer is required", <<>>)
    ELSE Chown(c, "B", <<>>, c.x.uid, c.x.gid, DirFdFromArgs(1, KwMissing), TRUE)

\* execv and execve.  c.x.argv is the argument list, a sequence of objects;
\* c.x.env is what the environment mapping holds: "ok", "eq" (a key with
\* '='), "nul" (an entry with a NUL) or "type" (a key that is no path).
\* vm.extract_elements converts every element before the list is examined.
ExtractElements(argv) ==
    IF \E i \in 1..Len(argv) : argv[i].tag # "str"
    THEN [err |-> "TypeError", msg |-> "expected str"]
    ELSE [err |-> "none", msg |-> ""]

\* the image of the process was replaced: the call never returns
Replaced == [tag |-> "replaced"]

\* Mutant of PosixExecv: the first element is not examined.
PosixExecvNoFirstCheck(p, c) ==
    LET argv == ExtractElements(c.x.argv)
    IN  IF c.path.tag # "str" THEN Raised("TypeError", "expected str", <<>>)
        ELSE IF HasNul(c.path.b) THEN Raised("ValueError", "embedded null character", <<>>)
        ELSE IF argv.err # "none" THEN ArgErr(argv)
        ELSE IF c.x.argv = <<>>
        THEN Raised("ValueError", "execv() arg 2 must not be empty", <<>>)
        ELSE IF c.nat.ok THEN Returned(Replaced, <<"execv">>)
        ELSE NixIntoPyException(NixSys(c.nat.err), <<"execv">>)

PosixExecv(p, c) ==
    LET argv == ExtractElements(c.x.argv)
    IN  IF c.path.tag # "str" THEN Raised("TypeError", "expected str", <<>>)
        ELSE IF HasNul(c.path.b) THEN Raised("ValueError", "embedded null character", <<>>)
        ELSE IF argv.err # "none" THEN ArgErr(argv)
        ELSE IF c.x.argv = <<>>
        THEN Raised("ValueError", "execv() arg 2 must not be empty", <<>>)
        ELSE IF c.x.argv[1].b = <<>>
        THEN Raised("ValueError", "execv() arg 2 first element cannot be empty", <<>>)
        ELSE IF c.nat.ok THEN Returned(Replaced, <<"execv">>)
        ELSE NixIntoPyException(NixSys(c.nat.err), <<"execv">>)

PosixExecve(p, c) ==
    LET path == TryFromObject(p, c.path)
        argv == ExtractElements(c.x.argv)
    IN  IF path.err # "none" THEN ArgErr(path)
        ELSE IF HasNul(path.path) THEN Raised("ValueError", "embedded null character", <<>>)
        ELSE IF argv.err # "none" THEN ArgErr(argv)
        ELSE IF c.x.argv = <<>>
        THEN Raised("ValueError", "execve() arg 2 must not be empty", <<>>)
        ELSE IF c.x.argv[1].b = <<>>
        THEN Raised("ValueError", "execve() arg 2 first element cannot be empty", <<>>)
        ELSE IF c.x.env = "type"
        THEN Raised("TypeError", "expected str, bytes or os.PathLike object", <<>>)
        ELSE IF c.x.env = "eq"
        THEN Raised("ValueError", "illegal environment variable name", <<>>)
        ELSE IF c.x.env = "nul" THEN Raised("ValueError", "embedded null character", <<>>)
        ELSE IF c.nat.ok THEN Returned(Replaced, <<"execve">>)
        ELSE NixIntoPyException(NixSys(c.nat.err), <<"execve">>)

NtExecv(p, c) ==
    LET argv == ExtractElements(c.x.argv)
    IN  IF c.path.tag # "str" THEN Raised("TypeError", "expected str", <<>>)
        ELSE IF argv.err # "none" THEN ArgErr(argv)
        ELSE IF c.x.argv = <<>>
        THEN Raised("ValueError", "execv() arg 2 must not be empty", <<>>)
        ELSE IF c.x.argv[1].b = <<>>
        THEN Raised("ValueError", "execv() arg 2 first element cannot be empty", <<>>)
        ELSE IF c.nat.ok THEN Returned(Replaced, <<"_wexecv">>)
        ELSE ErrnoErr(c.nat.err, <<"_wexecv">>)

\* posix_spawn and posix_spawnp.  A file action is a tuple: id is <<>> for
\* the empty tuple and <<k>> for a first element k, args are the remaining
\* elements, integers or paths.
IntItem(v) == [t |-> "int", v |-> v, nul |-> FALSE]
PathItem(nul) == [t |-> "path", v |-> 0, nul |-> nul]
FileAction(id, args) == [id |-> id, args |-> args]

SpawnOpen == 0
SpawnClose == 1
SpawnDup2 == 2

AllInts(args) == \A i \in 1..Len(args) : args[i].t = "int"

\* Mutant of BindAction: the path of an Open action is not examined.
BindActionAnyPath(a) ==
    LET E(exc, msg) == [err |-> exc, msg |-> msg, add |-> "-"]
        Add(name) == [err |-> "none", msg |-> "", add |-> name]
    IN  IF a.id = <<>>
        THEN E("TypeError", "Each file_actions element must be a non-empty tuple")
        ELSE IF a.id[1] \notin {SpawnOpen, SpawnClose, SpawnDup2}
        THEN E("TypeError", "Unknown file_actions identifier")
        ELSE IF a.id[1] = SpawnOpen
        THEN IF Len(a.args) # 4 \/ a.args[1].t # "int" \/ a.args[2].t # "path"
                \/ a.args[3].t # "int" \/ a.args[4].t # "int"
             THEN E("TypeError", "wrong arguments")
             ELSE Add("posix_spawn_file_actions_addopen")
        ELSE IF a.id[1] = SpawnClose
        THEN IF Len(a.args) # 1 \/ ~AllInts(a.args) THEN E("TypeError", "wrong arguments")
             ELSE Add("posix_spawn_file_actions_addclose")
        ELSE IF Len(a.args) # 2 \/ ~AllInts(a.args) THEN E("TypeError", "wrong arguments")
        ELSE Add("posix_spawn_file_actions_adddup2")

\* one turn of the loop up to the native add call: the error raised, or the
\* native function that registers the action
BindAction(a) ==
    LET E(exc, msg) == [err |-> exc, msg |-> msg, add |-> "-"]
        Add(name) == [err |-> "none", msg |-> "", add |-> name]
    IN  IF a.id = <<>>
        THEN E("TypeError", "Each file_actions element must be a non-empty tuple")
        ELSE IF a.id[1] \notin {SpawnOpen, SpawnClose, SpawnDup2}
        THEN E("TypeError", "Unknown file_actions identifier")
        ELSE IF a.id[1] = SpawnOpen
        THEN IF Len(a.args) # 4 \/ a.args[1].t # "int" \/ a.args[2].t # "path"
                \/ a.args[3].t # "int" \/ a.args[4].t # "int"
             THEN E("TypeError", "wrong arguments")
             ELSE IF a.args[2].nul
             THEN E("ValueError", "POSIX_SPAWN_OPEN path should not have nul bytes")
             ELSE Add("posix_spawn_file_actions_addopen")
        ELSE IF a.id[1] = SpawnClose
        THEN IF Len(a.args) # 1 \/ ~AllInts(a.args) THEN E("TypeError", "wrong arguments")
             ELSE Add("posix_spawn_file_actions_addclose")
        ELSE IF Len(a.args) # 2 \/ ~AllInts(a.args) THEN E("TypeError", "wrong arguments")
        ELSE Add("posix_spawn_file_actions_adddup2")

\* the loop over file_actions: native is the native calls made so far, reg
\* the actions registered so far, addfail the number of the add call that
\* returns non-zero (0: none does)
RECURSIVE RegisterActions(_, _, _, _)
RegisterActions(actions, addfail, native, reg) ==
    IF actions = <<>> THEN [err |-> "none", msg |-> "", native |-> native, reg |-> reg]
    ELSE LET b == BindAction(Head(actions))
             called == Append(native, b.add)
         IN  IF b.err # "none"
             THEN [err |-> b.err, msg |-> b.msg, native |-> native, reg |-> reg]
             ELSE IF addfail = Len(reg) + 1
             THEN [err |-> "errno", msg |-> "", native |-> called, reg |-> reg]
             ELSE RegisterActions(Tail(actions), addfail, called, Append(reg, Head(actions)))

\* the error number a failing posix_spawn_file_actions_add* call returns
AddFailure == EINVAL

\* PosixSpawnArgs::spawn.  c.x.ret is what the native spawn call returns and
\* c.nat.err what the thread's errno holds, which the native spawn functions
\* do not set.  The outcome also records reg, the actions
\* registered, and live, the native objects initialised by the call and not
\* destroyed when it returns.
Spawn(p, c, spawnp) ==
    LET path == TryFromObject(p, c.path)
        With(o, reg, live) == o @@ [reg |-> reg, live |-> live]
        fa == RegisterActions(c.x.actions, c.x.addfail,
                              <<"posix_spawn_file_actions_init">>, <<>>)
        attr == Append(fa.native, "posix_spawnattr_init")
        sigs == IF c.x.setsigdef = "none" THEN attr
                ELSE Append(attr, "posix_spawnattr_setsigdefault")
        name == IF spawnp THEN "posix_spawnp" ELSE "posix_spawn"
    IN  IF path.err # "none" THEN With(ArgErr(path), <<>>, {})
        ELSE IF HasNul(path.path)
        THEN With(Raised("ValueError", "path should not have nul bytes", <<>>), <<>>, {})
        ELSE IF fa.err = "errno"
        THEN With(ErrnoErr(c.nat.err, fa.native), fa.reg, {"file_actions"})
        ELSE IF fa.err # "none"
        THEN With(Raised(fa.err, fa.msg, fa.native), fa.reg, {"file_actions"})
        ELSE IF c.x.setsigdef = "range"
        THEN With(Raised("ValueError", "signal number out of range", attr), fa.reg,
                  {"file_actions", "attr"})
        ELSE IF c.x.args = "nul"
        THEN With(Raised("ValueError", "path should not have nul bytes", sigs), fa.reg,
                  {"file_actions", "attr"})
        ELSE IF c.x.env = "eq"
        THEN With(Raised("ValueError", "envp dict key cannot contain a '=' character", sigs),
                  fa.reg, {"file_actions", "attr"})
        ELSE IF c.x.ret = 0
        THEN With(Returned([tag |-> "pid"], Append(sigs, name)), fa.reg,
                  {"file_actions", "attr"})
        ELSE With(ErrnoErr(c.nat.err, Append(sigs, name)), fa.reg, {"file_actions", "attr"})

PosixSpawn(p, c) == Spawn(p, c, FALSE)
PosixSpawnp(p, c) == Spawn(p, c, TRUE)

\* pipe, dup and dup2.  A descriptor is [open, cloexec]; the outcome records
\* in fds the descriptors the call created.  step says where the fcntl calls
\* of raw_set_inheritable fail on a descriptor: "none", "get" or "set".
NewFd == [open |-> TRUE, cloexec |-> FALSE]
CloseFd(d) == [d EXCEPT !.open = FALSE]
InheritError == OsError(EPERM)

RawSetInheritable(d, inheritable, step) ==
    LET new_flags == [d EXCEPT !.cloexec = ~inheritable]
    IN  IF step = "get" THEN [ok |-> FALSE, fd |-> d, native |-> <<"fcntl(F_GETFD)">>]
        ELSE IF d = new_flags THEN [ok |-> TRUE, fd |-> d, native |-> <<"fcntl(F_GETFD)">>]
        ELSE IF step = "set"
        THEN [ok |-> FALSE, fd |-> d, native |-> <<"fcntl(F_GETFD)", "fcntl(F_SETFD)">>]
        ELSE [ok |-> TRUE, fd |-> new_flags,
              native |-> <<"fcntl(F_GETFD)", "fcntl(F_SETFD)">>]

\* Mutant of Pipe: on failure only the read end is closed.
PipeClosesReadEnd(p, c) ==
    LET r == RawSetInheritable(NewFd, FALSE, c.x.step[1])
        w == RawSetInheritable(NewFd, FALSE, c.x.step[2])
        nr == <<"pipe">> \o r.native
    IN  IF ~c.nat.ok
        THEN NixIntoPyException(NixSys(c.nat.err), <<"pipe">>) @@ [fds |-> <<>>]
        ELSE IF ~r.ok
        THEN NixIntoPyException(NixSys(InheritError), nr \o <<"close">>)
                 @@ [fds |-> <<CloseFd(r.fd), NewFd>>]
        ELSE IF ~w.ok
        THEN NixIntoPyException(NixSys(InheritError), nr \o w.native \o <<"close">>)
                 @@ [fds |-> <<CloseFd(r.fd), w.fd>>]
        ELSE Returned([tag |-> "fds"], nr \o w.native) @@ [fds |-> <<r.fd, w.fd>>]

Pipe(p, c) ==
    LET r == RawSetInheritable(NewFd, FALSE, c.x.step[1])
        w == RawSetInheritable(NewFd, FALSE, c.x.step[2])
        nr == <<"pipe">> \o r.native
    IN  IF ~c.nat.ok
        THEN NixIntoPyException(NixSys(c.nat.err), <<"pipe">>) @@ [fds |-> <<>>]
        ELSE IF ~r.ok
        THEN NixIntoPyException(NixSys(InheritError), nr \o <<"close", "close">>)
                 @@ [fds |-> <<CloseFd(r.fd), CloseFd(NewFd)>>]
        ELSE IF ~w.ok
        THEN NixIntoPyException(NixSys(InheritError), nr \o w.native \o <<"close", "close">>)
                 @@ [fds |-> <<CloseFd(r.fd), CloseFd(w.fd)>>]
        ELSE Returned([tag |-> "fds"], nr \o w.native) @@ [fds |-> <<r.fd, w.fd>>]

Dup(p, c) ==
    LET s == RawSetInheritable(NewFd, FALSE, c.x.step[1])
    IN  IF ~c.nat.ok
        THEN NixIntoPyException(NixSys(c.nat.err), <<"dup">>) @@ [fds |-> <<>>]
        ELSE IF ~s.ok
        THEN NixIntoPyException(NixSys(InheritError), <<"dup">> \o s.native \o <<"close">>)
                 @@ [fds |-> <<CloseFd(s.fd)>>]
        ELSE Returned([tag |-> "fds"], <<"dup">> \o s.native) @@ [fds |-> <<s.fd>>]

\* c.x.inheritable is <<>> when the argument is left out
Dup2Inheritable(c) == IF c.x.inheritable = <<>> THEN TRUE ELSE c.x.inheritable[1]

Dup2(p, c) ==
    LET s == RawSetInheritable(NewFd, FALSE, c.x.step[1])
    IN  IF ~c.nat.ok
        THEN NixIntoPyException(NixSys(c.nat.err), <<"dup2">>) @@ [fds |-> <<>>]
        ELSE IF Dup2Inheritable(c)
        THEN Returned([tag |-> "fds"], <<"dup2">>) @@ [fds |-> <<NewFd>>]
        ELSE IF ~s.ok
        THEN NixIntoPyException(NixSys(InheritError), <<"dup2">> \o s.native \o <<"close">>)
                 @@ [fds |-> <<CloseFd(s.fd)>>]
        ELSE Returned([tag |-> "fds"], <<"dup2">> \o s.native) @@ [fds |-> <<s.fd>>]

\* putenv and unsetenv.  The environment is a set of <<key, value>> pairs;
\* the outcome records in env the environment the call leaves behind.
ByteEq == 61

EnvArg(p, obj) ==
    CASE obj.tag = "str" -> [err |-> "none", msg |-> "", path |-> obj.b]
      [] obj.tag = "bytes" -> BytesAsOsStr(p, obj.b)
      [] OTHER -> [err |-> "TypeError", msg |-> "must be either str or bytes", path |-> <<>>]

HasEq(b) == \E i \in 1..Len(b) : b[i] = ByteEq

\* the process panicked inside the call: no value and no exception is
\* handed back to the caller
Panicked(native) ==
    [exc |-> "panic", errno |-> <<>>, msg |-> "failed to set environment variable",
     native |-> native, val |-> NoVal, via |-> "std", from |-> NoIoError]

\* std::env::set_var panics when the key is empty or holds '=' or NUL, or the
\* value holds NUL
SetVarPanics(key, value) == key = <<>> \/ HasEq(key) \/ HasNul(key) \/ HasNul(value)
RemoveVarPanics(key) == key = <<>> \/ HasEq(key) \/ HasNul(key)

Putenv(p, c) ==
    LET key == EnvArg(p, c.x.key)
        value == EnvArg(p, c.x.value)
        With(o, env) == o @@ [env |-> env]
    IN  IF c.x.key.tag \notin {"str", "bytes"} THEN With(ArgErr(key), c.x.env)
        ELSE IF c.x.value.tag \notin {"str", "bytes"} THEN With(ArgErr(value), c.x.env)
        ELSE IF key.err # "none" THEN With(ArgErr(key), c.x.env)
        ELSE IF value.err # "none" THEN With(ArgErr(value), c.x.env)
        ELSE IF SetVarPanics(key.path, value.path)
        THEN With(Panicked(<<"set_var">>), c.x.env)
        ELSE With(Returned(UnitVal, <<"set_var">>),
                  {e \in c.x.env : e[1] # key.path} \cup {<<key.path, value.path>>})

Unsetenv(p, c) ==
    LET key == EnvArg(p, c.x.key)
        With(o, env) == o @@ [env |-> env]
    IN  IF key.err # "none" THEN With(ArgErr(key), c.x.env)
        ELSE IF RemoveVarPanics(key.path) THEN With(Panicked(<<"remove_var">>), c.x.env)
        ELSE With(Returned(UnitVal, <<"remove_var">>), {e \in c.x.env : e[1] # key.path})

\* The capability table and the three advertised sets.  Some(b) is <<b>>,
\* None is <<>>.
SupportFunc(name, fd, dir_fd, follow_symlinks) ==
    [name |-> name, fd |-> fd, dir_fd |-> dir_fd, follow_symlinks |-> follow_symlinks]

PlatformSupportFuncs(p) ==
    IF ~IsUnix(p) THEN {}
    ELSE {SupportFunc("chmod", <<FALSE>>, <<FALSE>>, <<FALSE>>),
          SupportFunc("umask", <<FALSE>>, <<FALSE>>, <<FALSE>>),
          SupportFunc("execv", <<>>, <<>>, <<>>)}
         \cup (IF p = "redox" THEN {}
               ELSE {SupportFunc("chroot", <<FALSE>>, <<>>, <<>>),
                     SupportFunc("chown", <<TRUE>>, <<TRUE>>, <<TRUE>>),
                     SupportFunc("lchown", <<>>, <<>>, <<>>),
                     SupportFunc("fchown", <<TRUE>>, <<>>, <<TRUE>>)})

SupportFuncs(p) ==
    PlatformSupportFuncs(p) \cup
    {SupportFunc("open", <<FALSE>>, <<OPEN_DIR_FD(p)>>, <<FALSE>>),
     SupportFunc("access", <<FALSE>>, <<FALSE>>, <<>>),
     SupportFunc("chdir", <<>>, <<FALSE>>, <<FALSE>>),
     SupportFunc("listdir", <<LISTDIR_FD(p)>>, <<FALSE>>, <<FALSE>>),
     SupportFunc("mkdir", <<FALSE>>, <<MKDIR_DIR_FD(p)>>, <<FALSE>>),
     SupportFunc("readlink", <<FALSE>>, <<>>, <<FALSE>>),
     SupportFunc("remove", <<FALSE>>, <<>>, <<FALSE>>),
     SupportFunc("unlink", <<FALSE>>, <<>>, <<FALSE>>),
     SupportFunc("rename", <<FALSE>>, <<>>, <<FALSE>>),
     SupportFunc("replace", <<FALSE>>, <<>>, <<FALSE>>),
     SupportFunc("rmdir", <<FALSE>>, <<>>, <<FALSE>>),
     SupportFunc("scandir", <<>>, <<FALSE>>, <<FALSE>>),
     SupportFunc("stat", <<TRUE>>, <<STAT_DIR_FD(p)>>, <<TRUE>>),
     SupportFunc("fstat", <<TRUE>>, <<STAT_DIR_FD(p)>>, <<TRUE>>),
     SupportFunc("symlink", <<FALSE>>, <<SYMLINK_DIR_FD(p)>>, <<FALSE>>),
     SupportFunc("truncate", <<TRUE>>, <<FALSE>>, <<FALSE>>),
     SupportFunc("utime", <<FALSE>>, <<UTIME_DIR_FD(p)>>, <<IsUnix(p) /\ p # "redox">>)}

UnwrapOrFalse(o) == IF o = <<>> THEN FALSE ELSE o[1]

\* make_module: c.x.name is the operation the caller looks up in the sets
MakeModule(p, c) ==
    Returned([tag |-> "module"], <<>>) @@
    [supports_fd |-> {s.name : s \in {t \in SupportFuncs(p) : UnwrapOrFalse(t.fd)}},
     supports_dir_fd |-> {s.name : s \in {t \in SupportFuncs(p) : UnwrapOrFalse(t.dir_fd)}},
     supports_follow_symlinks |->
         {s.name : s \in {t \in SupportFuncs(p) : UnwrapOrFalse(t.follow_symlinks)}}]

\* What the functions themselves do, from their signatures and bodies: the
\* capability of the dir_fd parameter (no parameter: FALSE), ...
AcceptsDirFd(p, op) ==
    CASE op = "open" -> OPEN_DIR_FD(p)
      [] op = "mkdir" -> MKDIR_DIR_FD(p)
      [] op \in {"stat", "fstat"} -> STAT_DIR_FD(p)
      [] op = "symlink" -> SYMLINK_DIR_FD(p)
      [] op = "utime" -> UTIME_DIR_FD(p)
      [] op = "chown" -> TRUE
      [] OTHER -> FALSE

\* ... whether the target may be a descriptor, ...
AcceptsFd(p, op) ==
    CASE op \in {"stat", "fstat", "truncate", "chown", "fchown"} -> TRUE
      [] op = "listdir" -> LISTDIR_FD(p)
      [] OTHER -> FALSE

\* ... and whether follow_symlinks = false reaches the native call.
HonoursNoFollow(p, op) ==
    CASE op \in {"stat", "fstat"} -> p # "redox"
      [] op = "utime" -> ~IsWindows(p) /\ p # "redox"
      [] op = "chown" -> TRUE
      [] OTHER -> FALSE

\* suppress_iph!.  The thread's invalid-parameter handler is c.x.handler
\* before the call; c.x.leave is how the guarded expression is left: "value"
\* (it evaluates to a value, the native call having succeeded), "failure"
\* (it evaluates to the failure value of the native call) or "early" (control
\* leaves the expression without a value, by return, ? or unwinding).
\* The result is the handler afterwards and whether a value came out.
SuppressIph(p, handler, leave) ==
    IF ~IsWindows(p) THEN [handler |-> handler, ret |-> leave # "early"]
    ELSE LET old == handler
             installed == "silent_iph_handler"
         IN  IF leave = "early" THEN [handler |-> installed, ret |-> FALSE]
             ELSE [handler |-> old, ret |-> TRUE]

\* a function whose body is one guarded expression
Guarded(p, c) ==
    LET g == SuppressIph(p, c.x.handler, c.x.leave)
    IN  (IF ~g.ret THEN Raised("Exit", "left the guarded expression early", <<"guarded">>)
         ELSE IF c.x.leave = "failure" THEN ErrnoErr(c.nat.err, <<"guarded">>)
         ELSE Returned(UnitVal, <<"guarded">>)) @@ [handler |-> g.handler]

NtWaitpid(p, c) ==
    LET g == SuppressIph(p, c.x.handler, c.x.leave)
    IN  (IF c.x.leave = "failure" THEN ErrnoErr(c.nat.err, <<"_cwait">>)
         ELSE Returned([tag |-> "waitpid"], <<"_cwait">>)) @@ [handler |-> g.handler]

\* n // 10^9 and n % 10^9 of a non-negative n, by three divisions by 1000
DivBillion(n) ==
    LET d1 == DivU(n, 1000)
        d2 == DivU(d1.q, 1000)
        d3 == DivU(d2.q, 1000)
    IN  [q |-> d3.q, r |-> d1.r + 1000 * d2.r + 1000000 * d3.r]

\* ns_to_dur: divmod(obj, 1_000_000_000), both parts converted to u64 and u32
NsToDur(n) ==
    IF IsNegW(n) \/ ~FitsW(DivBillion(n).q, TimeWidth + 1)
    THEN [err |-> "OverflowError", d |-> Duration(NatLimbs(0, TimeWidth), 0)]
    ELSE [err |-> "none", d |-> Duration(SubSeq(DivBillion(n).q, 1, TimeWidth), DivBillion(n).r)]

\* Duration::as_nanos and as_micros (u128)
AsNanos(d) == AddW(MulW(ZExt(d.secs, NsWidth), NatLimbs(NANOS_PER_SEC, NsWidth)),
                   NatLimbs(d.nanos, NsWidth))
AsMicros(d) == DivU(AsNanos(d), 1000).q

\* signed division of a two's complement value by a small positive number
DivS(a, d) == IF IsNegW(a) THEN NegW(DivU(NegW(a), d).q) ELSE DivU(a, d).q

\* seconds from 1601-01-01 to the Unix epoch: 11644473600
FiletimeEpoch == MulW(NatLimbs(116444736, TimeWidth), NatLimbs(100, TimeWidth))

\* the timestamp utime_impl builds from a Duration: a timespec, on redox a
\* timeval, on Windows the count of 100 ns intervals of a FILETIME
NativeTimestamp(p, d) ==
    IF p = "redox"
    THEN [tv_sec |-> d.secs, tv_usec |-> ZExt(AsMicros(d), TimeWidth)]
    ELSE IF IsWindows(p)
    THEN [intervals |->
            AddW(MulW(AddW(d.secs, FiletimeEpoch), NatLimbs(10000000, TimeWidth)),
                 DivS(ZExt(AsNanos(d), TimeWidth), 100))]
    ELSE [tv_sec |-> d.secs, tv_nsec |-> NatLimbs(d.nanos, TimeWidth)]

\* utime: the (acc, modif) pair from times and ns.  c.utimes and c.uns are
\* the lengths of the two tuples, <<>> for an argument that is None or left
\* out; c.x.clock is what successive readings of the clock give.
\* Mutant of UtimeTimes: the clock is read once for each of the two times.
UtimeTimesTwoReadings(c) ==
    LET T(a, m) == [err |-> "none", msg |-> "", acc |-> a, modif |-> m]
        E(exc, msg) == [err |-> exc, msg |-> msg, acc |-> NoVal, modif |-> NoVal]
    IN  CASE c.utimes # <<>> /\ c.uns # <<>> ->
               E("ValueError", "utime: you may specify either 'times' or 'ns' but not both")
          [] c.utimes # <<>> /\ c.uns = <<>> ->
               IF c.utimes # <<2>>
               THEN E("TypeError", "utime: 'times' must be either a tuple of two ints or None")
               ELSE T([src |-> "times", v |-> 1], [src |-> "times", v |-> 2])
          [] c.utimes = <<>> /\ c.uns # <<>> ->
               IF c.uns # <<2>>
               THEN E("TypeError", "utime: 'ns' must be a tuple of two ints")
               ELSE T([src |-> "ns", v |-> 1], [src |-> "ns", v |-> 2])
          [] OTHER ->
               T([src |-> "now", v |-> c.x.clock[1]], [src |-> "now", v |-> c.x.clock[2]])

UtimeTimes(c) ==
    LET T(a, m) == [err |-> "none", msg |-> "", acc |-> a, modif |-> m]
        E(exc, msg) == [err |-> exc, msg |-> msg, acc |-> NoVal, modif |-> NoVal]
    IN  CASE c.utimes # <<>> /\ c.uns # <<>> ->
               E("ValueError", "utime: you may specify either 'times' or 'ns' but not both")
          [] c.utimes # <<>> /\ c.uns = <<>> ->
               IF c.utimes # <<2>>
               THEN E("TypeError", "utime: 'times' must be either a tuple of two ints or None")
               ELSE T([src |-> "times", v |-> 1], [src |-> "times", v |-> 2])
          [] c.utimes = <<>> /\ c.uns # <<>> ->
               IF c.uns # <<2>>
               THEN E("TypeError", "utime: 'ns' must be a tuple of two ints")
               ELSE T([src |-> "ns", v |-> 1], [src |-> "ns", v |-> 2])
          [] OTHER ->
               LET now == c.x.clock[1]
               IN  T([src |-> "now", v |-> now], [src |-> "now", v |-> now])

\* utime and utime_impl; the value returned records the two times handed to
\* the native call: where they come from, as Durations and as the platform's
\* timestamps.  c.x.d are the Durations of times, c.x.n the integers of ns.
Utime(p, c) ==
    LET path == TryFromObject(p, c.path)
        dir_fd == DirFdFromArgs(Bit(UTIME_DIR_FD(p)), c.dir_fd)
        t == UtimeTimes(c)
        Ns(x) == NsToDur(c.x.n[x.v])
        Dur(x) == CASE x.src = "times" -> c.x.d[x.v]
                    [] x.src = "ns" -> Ns(x).d
                    [] OTHER -> Duration(NatLimbs(x.v, TimeWidth), 0)
        nserr == t.err = "none" /\ t.acc.src = "ns"
                 /\ (Ns(t.acc).err # "none" \/ Ns(t.modif).err # "none")
        set == [tag |-> "utime", acc |-> t.acc, modif |-> t.modif,
                dur |-> <<Dur(t.acc), Dur(t.modif)>>,
                native |-> <<NativeTimestamp(p, Dur(t.acc)), NativeTimestamp(p, Dur(t.modif))>>]
    IN  IF path.err # "none" THEN ArgErr(path)
        ELSE IF dir_fd.err # "none" THEN ArgErr(dir_fd)
        ELSE IF t.err # "none" THEN Raised(t.err, t.msg, <<>>)
        ELSE IF nserr THEN Raised("OverflowError", "value out of range", <<>>)
        ELSE IF p = "redox"
        THEN IF HasNul(path.path) THEN NixIntoPyException(NixInvalidPath, <<>>)
             ELSE IF c.nat.ok THEN Returned(set, <<"utimes">>)
             ELSE NixIntoPyException(NixSys(c.nat.err), <<"utimes">>)
        ELSE IF IsWindows(p)
        THEN IF StdPathError(<<path.path>>) THEN IntoPyException(InvalidInputError, <<>>)
             ELSE IF ~c.nat.ok THEN IntoPyException(c.nat.err, <<"open">>)
             ELSE Returned(set, <<"open", "SetFileTime">>)
        ELSE IF IntoCString(path.path) # "none" THEN EmbeddedNul(<<>>)
        ELSE LET name == IF c.follow THEN "utimensat(0)"
                         ELSE "utimensat(AT_SYMLINK_NOFOLLOW)"
             IN  IF c.nat.ok THEN Returned(set, <<name>>) ELSE ErrnoErr(c.nat.err, <<name>>)

\* setreuid.  c.x.cred is the process's real, effective and saved user id
\* before the call (r, e, s); the outcome carries them after it as field
\* cred.  The native calls as setuid(2) and seteuid(2) define them: with
\* effective uid 0 setuid sets all three ids, otherwise it sets the
\* effective id and only to the real or the saved id; seteuid sets the
\* effective id, without privilege only to one of the three ids.
NativeSetuid(cred, uid) ==
    IF cred.e = 0 THEN [ok |-> TRUE, cred |-> [r |-> uid, e |-> uid, s |-> uid]]
    ELSE IF uid \in {cred.r, cred.s} THEN [ok |-> TRUE, cred |-> [cred EXCEPT !.e = uid]]
    ELSE [ok |-> FALSE, cred |-> cred]

NativeSeteuid(cred, uid) ==
    IF cred.e = 0 \/ uid \in {cred.r, cred.e, cred.s}
    THEN [ok |-> TRUE, cred |-> [cred EXCEPT !.e = uid]]
    ELSE [ok |-> FALSE, cred |-> cred]

Setreuid(p, c) ==
    LET first == NativeSetuid(c.x.cred, c.x.ruid)
        second == NativeSeteuid(first.cred, c.x.euid)
    IN  IF ~first.ok
        THEN [cred |-> first.cred] @@ NixIntoPyException(NixSys(OsError(EPERM)), <<"setuid">>)
        ELSE IF ~second.ok
        THEN [cred |-> second.cred]
             @@ NixIntoPyException(NixSys(OsError(EPERM)), <<"setuid", "seteuid">>)
        ELSE [cred |-> second.cred] @@ Returned(UnitVal, <<"setuid", "seteuid">>)

AccessX(m, fm, u, g, ro, dir) ==
    [mode |-> m, st_mode |-> fm, st_uid |-> 1000, st_gid |-> 100, uid |-> u,
     groups |-> g, readonly |-> ro, isdir |-> dir]
AccessModes == 0..9 \cup {255}
FileModes == {o * 64 + g * 8 + r : o \in {0, 3, 4, 7}, g \in {0, 3, 4, 7}, r \in {0, 3, 4, 7}}
GroupAnswers ==
    {[ok |-> TRUE, err |-> NoIoError, ids |-> ids] : ids \in {{}, {7}, {7, 100}}}
    \cup {[ok |-> FALSE, err |-> OsError(EINVAL), ids |-> {}]}
AccessCalls(p) ==
    IF IsUnix(p)
    THEN {[BaseCall(p, "posix.access") EXCEPT !.path = a, !.nat = n,
              !.x = AccessX(m, 420, 1000, CHOOSE g \in GroupAnswers : g.ok /\ g.ids = {}, FALSE, FALSE)] :
            a \in {PyStr(<<ByteA>>), PyBytes(<<ByteA, ByteNUL>>), PyIntObj},
            n \in {NatOk, NatErr(OsError(ENOENT)), NatErr(OsError(EACCES))},
            m \in AccessModes}
         \cup {[BaseCall(p, "posix.access") EXCEPT !.x = AccessX(m, fm, u, g, FALSE, FALSE)] :
                 m \in 0..7, fm \in FileModes, u \in {1000, 1001}, g \in GroupAnswers}
    ELSE IF IsWindows(p)
    THEN {[BaseCall(p, "nt.access") EXCEPT !.path = a, !.nat = n,
              !.x = AccessX(m, 0, 0, [ok |-> TRUE, err |-> NoIoError, ids |-> {}], ro, dir)] :
            a \in {PyStr(<<ByteA>>), PyBytes(<<ByteA, ByteNUL>>), PyIntObj},
            n \in {NatOk, NatErr(OsError(ENOENT))},
            m \in AccessModes, ro \in BOOLEAN, dir \in BOOLEAN}
    ELSE {}

\* ids -3 .. 1, and ids at and around 2^32: 2^32 - 1, 2^32, 2^32 + 1
ChownIds == {Isize(n) : n \in -3 .. 1}
BigIds == {<<255, 255, 255, 255, 0, 0, 0, 0>>, <<0, 0, 0, 0, 1, 0, 0, 0>>,
           <<1, 0, 0, 0, 1, 0, 0, 0>>}
ChownCalls(p) ==
    IF p # "linux" THEN {}
    ELSE {[BaseCall(p, op) EXCEPT !.path = a, !.nat = n, !.follow = f,
              !.x = [uid |-> u, gid |-> g, link |-> l]] :
            op \in {"chown", "lchown", "fchown"},
            a \in {PyStr(<<ByteA>>), PyBytes(<<ByteNUL>>), PyIntObj},
            n \in {NatOk, NatErr(OsError(EPERM))}, f \in BOOLEAN,
            u \in ChownIds, g \in ChownIds, l \in BOOLEAN}
         \cup {[BaseCall(p, "chown") EXCEPT !.dir_fd = d,
                  !.x = [uid |-> Isize(u), gid |-> Isize(0), link |-> TRUE]] :
                 d \in DirFdArgs, u \in {-2, 0}}
         \cup {[BaseCall(p, "chown") EXCEPT !.nat = NatErr(e),
                  !.x = [uid |-> Isize(0), gid |-> Isize(0), link |-> TRUE]] :
                 e \in OsErrors}
         \cup {[BaseCall(p, op) EXCEPT !.nat = n,
                  !.x = [uid |-> u, gid |-> g, link |-> TRUE]] :
                 op \in {"chown", "lchown"}, n \in {NatOk, NatErr(OsError(EPERM))},
                 u \in BigIds \cup {Isize(-1), Isize(1)},
                 g \in BigIds \cup {Isize(-1), Isize(1)}}

MaxArgv == 2
ArgvElements == {PyStr(<<ByteA>>), PyStr(<<>>), PyIntObj}
Argvs == UNION {[1..n -> ArgvElements] : n \in 0..MaxArgv}
ExecCalls(p) ==
    LET Fam(op, envs) ==
            {[BaseCall(p, op) EXCEPT !.path = a, !.nat = n, !.x = [argv |-> v, env |-> e]] :
               a \in {PyStr(<<ByteA>>), PyStr(<<ByteNUL>>), PyBytes(<<ByteA>>)},
               n \in {NatOk, NatErr(OsError(ENOENT))}, v \in Argvs, e \in envs}
    IN  IF IsUnix(p)
        THEN Fam("posix.execv", {"ok"}) \cup Fam("posix.execve", {"ok", "eq", "nul", "type"})
        ELSE IF IsWindows(p) THEN Fam("nt.execv", {"ok"})
        ELSE {}

MaxActions == 2
SpawnActions ==
    {FileAction(<<SpawnOpen>>, <<IntItem(3), PathItem(FALSE), IntItem(0), IntItem(0)>>),
     FileAction(<<SpawnOpen>>, <<IntItem(3), PathItem(TRUE), IntItem(0), IntItem(0)>>),
     FileAction(<<SpawnClose>>, <<IntItem(3)>>),
     FileAction(<<SpawnClose>>, <<IntItem(4)>>),
     FileAction(<<SpawnDup2>>, <<IntItem(3), IntItem(4)>>),
     FileAction(<<>>, <<>>),
     FileAction(<<3>>, <<IntItem(3)>>),
     FileAction(<<SpawnClose>>, <<IntItem(3), IntItem(4)>>),
     FileAction(<<SpawnDup2>>, <<IntItem(3), PathItem(FALSE)>>)}
SpawnX(actions, addfail, setsigdef, args, env, r) ==
    [actions |-> actions, addfail |-> addfail, setsigdef |-> setsigdef, args |-> args,
     env |-> env, ret |-> r]
SpawnCalls(p) ==
    IF p # "linux" THEN {}
    ELSE UNION {
           {[BaseCall(p, op) EXCEPT
                !.nat = NatErr(OsError(IF r = 0 /\ f = 0 THEN EINVAL ELSE ENOENT)),
                !.x = SpawnX(a, f, "none", "ok", "ok", r)] :
              a \in UNION {[1..n -> SpawnActions] : n \in 0..MaxActions},
              f \in 0..MaxActions, r \in {0, 2}}
           \cup {[BaseCall(p, op) EXCEPT !.nat = NatErr(OsError(e)),
                    !.x = SpawnX(<<FileAction(<<SpawnClose>>, <<IntItem(3)>>)>>, f, "none",
                                 "ok", "ok", r)] :
                   e \in {ENOENT, EINVAL, EIO}, f \in {0, 1}, r \in {0, ENOENT, EINVAL}}
           \cup {[BaseCall(p, op) EXCEPT !.path = pa, !.nat = NatErr(OsError(ENOENT)),
                    !.x = SpawnX(<<a>>, 0, sg, ar, en, r)] :
                   pa \in {PyStr(<<ByteA>>), PyBytes(<<ByteNUL>>), PyIntObj},
                   a \in {FileAction(<<SpawnClose>>, <<IntItem(3)>>), FileAction(<<>>, <<>>)},
                   sg \in {"none", "ok", "range"}, ar \in {"ok", "nul"},
                   en \in {"ok", "eq"}, r \in {0, 2}}
           : op \in {"posix_spawn", "posix_spawnp"}}

Steps == {"none", "get", "set"}
FdCalls(p) ==
    IF ~IsUnix(p) THEN {}
    ELSE {[BaseCall(p, op) EXCEPT !.nat = n, !.x = [step |-> <<a, b>>, inheritable |-> i]] :
            op \in {"pipe", "dup", "dup2"}, n \in {NatOk, NatErr(OsError(EAGAIN))},
            a \in Steps, b \in Steps, i \in {<<>>, <<TRUE>>, <<FALSE>>}}

EnvTexts == {<<ByteA>>, <<ByteA, ByteEq>>, <<ByteEq>>, <<ByteNUL>>, <<ByteA, ByteNUL>>,
             <<>>, <<ByteBad>>}
EnvObjects == {PyStr(b) : b \in EnvTexts} \cup {PyBytes(b) : b \in EnvTexts} \cup {PyIntObj}
EnvCalls(p) ==
    {[BaseCall(p, op) EXCEPT !.x = [key |-> k, value |-> v, env |-> e]] :
        op \in {"putenv", "unsetenv"}, k \in EnvObjects,
        v \in {PyStr(<<ByteA>>), PyBytes(<<ByteNUL>>), PyIntObj},
        e \in {{}, {<<(<<ByteA>>), (<<ByteDot>>)>>}}}

ModuleCalls(p) ==
    {[BaseCall(p, "make_module") EXCEPT !.x = [name |-> s.name]] : s \in SupportFuncs(p)}

Handlers == {"default", "custom", "silent_iph_handler"}
IphCalls(p) ==
    {[BaseCall(p, "guarded") EXCEPT !.nat = NatErr(OsError(EINVAL)),
         !.x = [handler |-> h, leave |-> l]] :
       h \in Handlers, l \in {"value", "failure", "early"}}
    \cup (IF ~IsWindows(p) THEN {}
          ELSE {[BaseCall(p, "nt.waitpid") EXCEPT !.nat = NatErr(OsError(EINVAL)),
                   !.x = [handler |-> h, leave |-> l]] :
                  h \in Handlers, l \in {"value", "failure"}})

Durations ==
    {Duration(s, n) : s \in {NatLimbs(0, TimeWidth), NatLimbs(1, TimeWidth),
                             <<0, 0, 0, 0, 2, 0, 0, 0>>},
                      n \in {0, 99, 1500, 999999999}}
NsValues == {NatLimbs(0, NsWidth), NatLimbs(999999999, NsWidth),
             NatLimbs(1000000000, NsWidth), NatLimbs(1500000001, NsWidth),
             <<7, 0, 0, 0, 0, 0, 0, 0, 1, 0, 0, 0, 0, 0, 0, 0>>,
             IntLimbs(-1, NsWidth)}
UtimeValueCalls(p) ==
    {[BaseCall(p, "utime") EXCEPT !.utimes = <<2>>,
         !.x = UtimeX(<<a, m>>, DefaultX.n)] : a \in Durations, m \in Durations}
    \cup {[BaseCall(p, "utime") EXCEPT !.uns = <<2>>,
             !.x = UtimeX(DefaultX.d, <<a, m>>)] : a \in NsValues, m \in NsValues}

\* chmod: modes with and without the owner-write bit; on Unix the path a
\* symlink or not, on Windows a file or a directory
ChmodModes == {0, 128, 292, 420, 438, 511}
ChmodCalls(p) ==
    IF IsUnix(p)
    THEN {[BaseCall(p, "posix.chmod") EXCEPT !.follow = f, !.nat = n,
              !.x = ChmodX(m, l, FALSE)] :
            f \in BOOLEAN, n \in {NatOk, NatErr(OsError(ENOENT))},
            m \in ChmodModes, l \in BOOLEAN}
    ELSE IF IsWindows(p)
    THEN {[BaseCall(p, "nt.chmod") EXCEPT !.follow = f, !.nat = n,
              !.x = ChmodX(m, FALSE, d)] :
            f \in BOOLEAN, n \in {NatOk, NatErr(OsError(ENOENT))},
            m \in ChmodModes, d \in BOOLEAN}
    ELSE {}

\* setreuid: user ids 0 (root), 1 and 2 for each id of the process and for
\* both arguments
Uids == 0 .. 2
SetreuidCalls(p) ==
    IF p # "linux" THEN {}
    ELSE {[BaseCall(p, "setreuid") EXCEPT
              !.x = [cred |-> [r |-> r, e |-> e, s |-> s], ruid |-> a, euid |-> b]] :
            r \in Uids, e \in Uids, s \in Uids, a \in Uids, b \in Uids}

MoreCalls(p) ==
    AccessCalls(p) \cup ChownCalls(p) \cup ExecCalls(p) \cup SpawnCalls(p) \cup FdCalls(p) \cup EnvCalls(p) \cup ModuleCalls(p) \cup IphCalls(p) \cup UtimeValueCalls(p) \cup ChmodCalls(p) \cup SetreuidCalls(p)

Requests(p) ==
    RaiseCalls(p) \cup UNION {CallsOf(p, op) : op \in Functions(p)} \cup MoreCalls(p)

\* no iterator is in play
IterIdle ==
    /\ entries = <<>>
    /\ entriesLock = 0
    /\ exhausted = TRUE
    /\ iterMode = "String"
    /\ iterDir = [arg |-> PyMissing, root |-> <<ByteDot>>]
    /\ pc = [t \in Threads |-> "idle"]
    /\ local = [t \in Threads |-> NoItem]
    /\ ret = [t \in Threads |-> RetNone]
    /\ closed = FALSE

InitCall ==
    /\ IterIdle
    /\ platform \in Platforms
    /\ call \in Requests(platform)
    /\ outcome = Pending

Do(op, result) ==
    /\ call.op = op
    /\ outcome = Pending
    /\ outcome' = result
    /\ UNCHANGED <<iterVars, platform, call>>

NextCall ==
    \/ Do("open", Open(platform, call))
    \/ Do("mkdir", Mkdir(platform, call))
    \/ Do("remove", Remove(platform, call))
    \/ Do("rmdir", Rmdir(platform, call))
    \/ Do("listdir", Listdir(platform, call))
    \/ Do("scandir", Scandir(platform, call))
    \/ Do("readlink", Readlink(platform, call))
    \/ Do("stat", Stat(platform, call))
    \/ Do("lstat", Lstat(platform, call))
    \/ Do("chdir", Chdir(platform, call))
    \/ Do("rename", Rename(platform, call))
    \/ Do("link", Link(platform, call))
    \/ Do("utime", Utime(platform, call))
    \/ Do("fspath", Fspath(platform, call))
    \/ Do("posix.symlink", PosixSymlink(platform, call))
    \/ Do("posix.chmod", PosixChmod(platform, call))
    \/ Do("nt.symlink", NtSymlink(platform, call))
    \/ Do("nt.chmod", NtChmod(platform, call))
    \/ Do("minor.symlink", MinorSymlink(platform, call))
    \/ Do("minor.access", MinorAccess(platform, call))
    \/ Do("raise", IntoPyException(call.e, <<>>))
    \/ Do("posix.access", PosixAccess(platform, call))
    \/ Do("nt.access", NtAccess(platform, call))
    \/ Do("chown", PyChown(platform, call))
    \/ Do("lchown", Lchown(platform, call))
    \/ Do("fchown", Fchown(platform, call))
    \/ Do("posix.execv", PosixExecv(platform, call))
    \/ Do("posix.execve", PosixExecve(platform, call))
    \/ Do("nt.execv", NtExecv(platform, call))
    \/ Do("posix_spawn", PosixSpawn(platform, call))
    \/ Do("posix_spawnp", PosixSpawnp(platform, call))
    \/ Do("pipe", Pipe(platform, call))
    \/ Do("dup", Dup(platform, call))
    \/ Do("dup2", Dup2(platform, call))
    \/ Do("putenv", Putenv(platform, call))
    \/ Do("unsetenv", Unsetenv(platform, call))
    \/ Do("make_module", MakeModule(platform, call))
    \/ Do("guarded", Guarded(platform, call))
    \/ Do("nt.waitpid", NtWaitpid(platform, call))
    \/ Do("setreuid", Setreuid(platform, call))

SpecCall == InitCall /\ [][NextCall]_vars

(***************************************************************************)
(* A session of calls on paths: a scandir iterator is built, advanced by   *)
(* one caller and its entries' name and path read, while listdir, readlink *)
(* and fspath are called with text and with bytes in between, and scandir  *)
(* again.                                                                  *)
(***************************************************************************)
Caller == 1

PathStreams ==
    {<<>>, <<OkItem(<<ByteA>>)>>, <<OkItem(<<ByteBad>>), OkItem(<<ByteA>>)>>}

SessionArgs ==
    {PyStr(<<ByteA>>), PyBytes(<<ByteA>>), PyBytes(<<ByteBad>>),
     PyFspath("str", <<ByteA>>), PyFspath("bytes", <<ByteA>>)}

ScandirCalls(p) ==
    {[BaseCall(p, "scandir") EXCEPT !.path = a, !.stream = s] :
        a \in SessionArgs \cup {PyMissing}, s \in PathStreams}
ListdirCalls(p) ==
    {[BaseCall(p, "listdir") EXCEPT !.path = a, !.stream = s] :
        a \in SessionArgs \cup {PyIntObj}, s \in PathStreams}
ReadlinkCalls(p) ==
    {[BaseCall(p, "readlink") EXCEPT !.path = a, !.target = t] :
        a \in SessionArgs, t \in FileNames}
FspathCalls(p) ==
    {[BaseCall(p, "fspath") EXCEPT !.path = a] : a \in SessionArgs}

\* the iterator a successful scandir call returned
IterBuilt(c, o) ==
    /\ entries = o.val.entries
    /\ entriesLock = 0
    /\ exhausted = o.val.exhausted
    /\ iterMode = o.val.mode
    /\ iterDir = [arg |-> c.path, root |-> o.val.root]
    /\ pc = [t \in Threads |-> "idle"]
    /\ local = [t \in Threads |-> NoItem]
    /\ ret = [t \in Threads |-> RetNone]
    /\ closed = FALSE

InitPath ==
    /\ platform \in Platforms
    /\ call \in ScandirCalls(platform)
    /\ outcome = Scandir(platform, call)
    /\ outcome.exc = "none"
    /\ IterBuilt(call, outcome)

PathScandir ==
    /\ pc[Caller] = "idle"
    /\ \E c \in ScandirCalls(platform) :
        /\ call' = c
        /\ outcome' = Scandir(platform, c)
        /\ IF outcome'.exc = "none"
           THEN /\ entries' = outcome'.val.entries
                /\ exhausted' = outcome'.val.exhausted
                /\ iterMode' = outcome'.val.mode
                /\ iterDir' = [arg |-> c.path, root |-> outcome'.val.root]
                /\ ret' = [t \in Threads |-> RetNone]
                /\ closed' = FALSE
           ELSE UNCHANGED <<entries, exhausted, iterMode, iterDir, ret, closed>>
    /\ UNCHANGED <<entriesLock, pc, local, platform>>

PathListdir ==
    /\ \E c \in ListdirCalls(platform) :
        call' = c /\ outcome' = Listdir(platform, c)
    /\ UNCHANGED <<iterVars, platform>>

PathReadlink ==
    /\ \E c \in ReadlinkCalls(platform) :
        call' = c /\ outcome' = Readlink(platform, c)
    /\ UNCHANGED <<iterVars, platform>>

PathFspath ==
    /\ \E c \in FspathCalls(platform) :
        call' = c /\ outcome' = Fspath(platform, c)
    /\ UNCHANGED <<iterVars, platform>>

PathEntryName ==
    /\ pc[Caller] = "idle"
    /\ ret[Caller].kind = "DirEntry"
    /\ call' = [BaseCall(platform, "DirEntry.name") EXCEPT !.entry = ret[Caller]]
    /\ outcome' = DirEntryName(platform, ret[Caller])
    /\ UNCHANGED <<iterVars, platform>>

PathEntryPath ==
    /\ pc[Caller] = "idle"
    /\ ret[Caller].kind = "DirEntry"
    /\ call' = [BaseCall(platform, "DirEntry.path") EXCEPT !.entry = ret[Caller]]
    /\ outcome' = DirEntryPath(platform, ret[Caller], iterDir.root)
    /\ UNCHANGED <<iterVars, platform>>

NextPath ==
    \/ PathScandir
    \/ PathListdir
    \/ PathReadlink
    \/ PathFspath
    \/ PathEntryName
    \/ PathEntryPath
    \/ NextLoad(Caller) /\ UNCHANGED callVars
    \/ NextRead(Caller) /\ UNCHANGED callVars
    \/ NextMatch(Caller) /\ UNCHANGED callVars
    \/ Close(Caller) /\ UNCHANGED callVars

SpecPath == InitPath /\ [][NextPath]_vars

(***************************************************************************)
(* Claims about the directory iterator, checked under Spec.                *)
(***************************************************************************)

\* C1: once a close() has returned, every advance begun later returns the
\* stop signal at its first step, yields no entry and leaves the stream
\* unread, also with unread entries left and also after stop was observed;
\* a close stores the flag, and a second close leaves the iterator exhausted
\* and the stream as it was.
C1_CloseForcesStop ==
    [][\A t \in Threads :
        /\ Close(t) => exhausted'
        /\ (closed /\ NextLoad(t)) =>
              /\ ret'[t] = RetStop
              /\ pc'[t] = "idle"
              /\ entries' = entries
        /\ (closed /\ Close(t)) =>
              /\ exhausted /\ exhausted'
              /\ entries' = entries]_vars

\* C1 witness: close() has returned, entries are still unread, and an advance
\* made since got stop (the stream never reached its end, so the stop is
\* the closed iterator's).
C1_Witness ==
    /\ closed
    /\ entries # <<>>
    /\ \E t \in Threads : ret[t] = RetStop

\* C2: exhausted is absorbing: no step of next, close, __enter__ or __exit__
\* takes it from true to false, and a next call that finds it true returns
\* stop without touching the stream or its lock.
C2_ExhaustedAbsorbing ==
    [][/\ exhausted => exhausted'
       /\ \A t \in Threads :
            (exhausted /\ NextLoad(t)) =>
              /\ ret'[t] = RetStop
              /\ pc'[t] = "idle"
              /\ entries' = entries
              /\ entriesLock' = entriesLock]_vars

\* C2 witness: the iterator became exhausted by reaching the end of the
\* stream (no close was called), and stop has been returned to every thread.
C2_Witness ==
    /\ exhausted
    /\ ~closed
    /\ entries = <<>>
    /\ \A t \in Threads : ret[t] = RetStop /\ pc[t] = "idle"

\* C3 (the claim as stated): once a close() has completed, no advance that
\* was in flight returns a directory entry.
C3_NoEntryAfterConcurrentClose ==
    [][\A t \in Threads :
        (closed /\ pc[t] = "match" /\ pc'[t] = "idle") =>
            ret'[t].kind # "DirEntry"]_vars

(***************************************************************************)
(* Claims about single calls, checked under SpecCall.                      *)
(***************************************************************************)
Done == outcome # Pending

\* the operations declared without support for dir_fd
NoDirFd(p, op) ==
    \/ op \in {"remove", "rmdir", "readlink", "posix.chmod", "nt.chmod", "nt.symlink",
               "minor.symlink"}
    \/ op \in {"open", "mkdir", "utime"} /\ p \in {"windows", "redox"}
    \/ op \in {"stat", "lstat"} /\ p = "windows"
    \/ op = "posix.symlink" /\ p = "redox"

TwoPaths(op) == op \in {"rename", "link", "posix.symlink", "nt.symlink", "minor.symlink"}

\* the arguments parsed before dir_fd are well-formed
PathArgsOk(p, c) ==
    /\ IF c.op \in {"stat", "lstat", "listdir"}
       THEN TryEitherPathFd(p, c.path).err = "none"
       ELSE TryFromObject(p, c.path).err = "none"
    /\ TwoPaths(c.op) => TryFromObject(p, c.path2).err = "none"

DirFdMessages ==
    {"dir_fd unavailable on this platform", "argument should be integer or None",
     "Python int too large to convert to Rust i32"}

DirFdGiven(kw) ==
    /\ kw.tag \notin {"missing", "none"}
    /\ kw # KwInt(IntLimbs(AT_FDCWD, PyIntWidth))

DirFdCase == Done /\ NoDirFd(platform, call.op) /\ PathArgsOk(platform, call)

\* C4 (the claim as stated): on an operation without dir_fd support, every
\* dir_fd that is not omitted, None or the sentinel fails with
\* NotImplementedError, with no native call issued.
C4_EveryDirFdNotImplemented ==
    (DirFdCase /\ DirFdGiven(call.dir_fd)) =>
        /\ outcome.exc = "NotImplementedError"
        /\ outcome.native = <<>>

\* C4 (amended): on an operation without dir_fd support, a dir_fd that is an
\* integer of the descriptor's width other than the sentinel fails with
\* NotImplementedError; one that is no integer fails with TypeError and an
\* integer outside the descriptor's width with OverflowError; each fails
\* while the arguments are parsed, with no native call issued and never as
\* OSError; omitted, None or the sentinel, dir_fd raises none of these.
C4_DirFdGate ==
    /\ (DirFdCase /\ DirFdGiven(call.dir_fd)) =>
          /\ outcome.native = <<>>
          /\ outcome.exc # "OSError"
          /\ outcome.exc =
               IF call.dir_fd.tag # "int" THEN "TypeError"
               ELSE IF ~FitsW(call.dir_fd.v, FdWidth) THEN "OverflowError"
               ELSE "NotImplementedError"
    /\ (DirFdCase /\ ~DirFdGiven(call.dir_fd)) => outcome.msg \notin DirFdMessages

\* C4 witness: remove() was called with dir_fd=3 and failed with
\* NotImplementedError.
C4_Witness ==
    /\ Done
    /\ call.op = "remove"
    /\ call.dir_fd = KwInt(IntLimbs(3, PyIntWidth))
    /\ outcome.exc = "NotImplementedError"

\* C5 (the claim as stated): access and symlink of the capability-poor
\* target, and listdir given a descriptor on a target that is not unix, fail
\* with NotImplementedError.
C5_AbsentIsNotImplemented ==
    (/\ Done
     /\ PathArgsOk(platform, call)
     /\ \/ call.op = "minor.access" /\ call.path.tag = "str"
        \/ call.op = "minor.symlink" /\ ~DirFdGiven(call.dir_fd)
        \/ call.op = "listdir" /\ ~IsUnix(platform) /\ call.path.tag = "int")
    => outcome.exc = "NotImplementedError"

\* the table of the io::Error translator
C6_Kind(e) ==
    CASE e.kind = "NotFound" -> "FileNotFoundError"
      [] e.kind = "PermissionDenied" -> "PermissionError"
      [] e.kind = "AlreadyExists" -> "FileExistsError"
      [] e.kind = "WouldBlock" -> "BlockingIOError"
      [] e.raw # <<>> /\ e.raw[1] \in {EAGAIN, EALREADY, EWOULDBLOCK, EINPROGRESS} ->
           "BlockingIOError"
      [] e.raw = <<ESRCH>> -> "ProcessLookupError"
      [] OTHER -> "OSError"

\* C6: every io::Error that is translated, with or without a raw code, gives
\* the exception type of the table, carrying the raw code (or none) and the
\* error's message.
C6_TranslatorTable ==
    (Done /\ outcome.via = "io") =>
        /\ outcome.from \in IoErrors
        /\ outcome.exc = C6_Kind(outcome.from)
        /\ outcome.errno = outcome.from.raw
        /\ outcome.msg = IoErrorToString(outcome.from)
        /\ call.op = "raise" => outcome.from = call.e

\* C6 witness: an error with raw code ESRCH was translated to
\* ProcessLookupError carrying that code.
C6_Witness ==
    /\ Done
    /\ outcome.via = "io"
    /\ outcome.from = OsError(ESRCH)
    /\ outcome.exc = "ProcessLookupError"
    /\ outcome.errno = <<ESRCH>>

\* C7 (the claim as stated): given a bytes path with an embedded NUL (and
\* nothing else wrong with the call), each of the path-taking operations
\* fails with ValueError and issues no native call.
C7_NulIsValueError ==
    (/\ Done
     /\ call.op \in {"open", "mkdir", "stat", "lstat", "remove", "rmdir", "listdir",
                     "scandir", "readlink", "rename", "link", "chdir", "posix.symlink",
                     "nt.symlink", "utime"}
     /\ call.path.tag = "bytes"
     /\ HasNul(call.path.b)
     /\ PathArgsOk(platform, call)
     /\ ~DirFdGiven(call.dir_fd))
    => /\ outcome.exc = "ValueError"
       /\ outcome.native = <<>>

\* v = sec * 10^9 + nsec as integers: v - nsec divides by 1000 three times
\* without remainder, and what is left is sec
ExactNs(v, sec, nsec) ==
    LET u == SubW(v, SExt(nsec, Len(v)))
        m == IF IsNegW(u) THEN NegW(u) ELSE u
        d1 == DivU(m, 1000)
        d2 == DivU(d1.q, 1000)
        d3 == DivU(d2.q, 1000)
        q == IF IsNegW(u) THEN NegW(d3.q) ELSE d3.q
    IN  /\ d1.r = 0 /\ d2.r = 0 /\ d3.r = 0
        /\ q = SExt(sec, Len(v))

\* C9: for each of the three timestamps of a stat result, the nanosecond
\* field is seconds * 1_000_000_000 + nanoseconds of the native pair exactly
\* and the integer field is its seconds; the native pair is that of
\* libc::stat, and on Windows the one synthesized from the SystemTime.
C9_NsExact ==
    (Done /\ call.op \in {"stat", "lstat"} /\ outcome.exc = "none") =>
        /\ Len(outcome.val.times) = 3
        /\ ~IsWindows(platform) => outcome.val.stat = call.times
        /\ \A i \in 1..3 :
            LET t == outcome.val.stat[i]
                f == outcome.val.times[i]
            IN  /\ ExactNs(f.ns, t.sec, t.nsec)
                /\ FitsW(f.int, Len(t.sec))
                /\ SExt(f.int, Len(t.sec)) = t.sec
                /\ (IsWindows(platform) /\ call.times[i].before) =>
                      /\ ExactNs(NegW(f.ns), call.times[i].secs, ZExt(call.times[i].nanos, TimeWidth))
                      /\ NegW(f.int) = ZExt(call.times[i].secs, NsWidth)

\* C9 witness: stat on Windows of a file last accessed before the epoch (by
\* a second less a nanosecond) and on another target of one whose time is
\* the largest time_t.
C9_Witness ==
    /\ Done
    /\ call.op = "stat"
    /\ outcome.exc = "none"
    /\ \/ /\ IsWindows(platform)
          /\ call.times[1] = SystemTime(TRUE, NatLimbs(1, TimeWidth), NANOS_PER_SEC - 1)
          /\ IsNegW(outcome.val.times[1].ns)
       \/ /\ platform = "linux"
          /\ call.times[2].sec = I64Max
          /\ ~IsNegW(outcome.val.times[2].ns)

\* C10 (the claim as stated): stat or lstat of a path with follow_symlinks
\* false, when it returns a record, returns that of the link itself and not
\* that of the link's target.
C10_NoFollowIsLink ==
    (/\ Done
     /\ call.op \in {"stat", "lstat"}
     /\ call.path.tag # "int"
     /\ call.op = "lstat" \/ ~call.follow
     /\ outcome.exc = "none")
    => outcome.val.subject = "link"

(***************************************************************************)
(* Claims about the encoding of results, checked under SpecPath.           *)
(***************************************************************************)
\* the encoding of a path argument: that of the object or of what its
\* __fspath__ returns; scandir without an argument reads "." as text
ArgEncoding(arg) ==
    CASE arg.tag = "pathlike" -> arg.inner
      [] arg.tag = "missing" -> "str"
      [] OTHER -> arg.tag

\* C8: the names listdir returns, the target readlink returns and what
\* fspath returns are bytes when the call's argument was bytes and text when
\* it was text; the iterator scandir returns keeps the encoding of the
\* argument it was built from, and the name and the path of every entry it
\* yields have that encoding, whatever calls were made in between.
C8_EncodingFollowsArgument ==
    /\ (call.op = "listdir" /\ call.path.tag # "int" /\ outcome.exc = "none") =>
          \A i \in 1..Len(outcome.val.items) :
              outcome.val.items[i].tag = ArgEncoding(call.path)
    /\ (call.op \in {"readlink", "fspath"} /\ outcome.exc = "none") =>
          outcome.val.tag = ArgEncoding(call.path)
    /\ (call.op \in {"DirEntry.name", "DirEntry.path"} /\ outcome.exc = "none") =>
          outcome.val.tag = ArgEncoding(iterDir.arg)
    /\ iterMode = (IF ArgEncoding(iterDir.arg) = "bytes" THEN "Bytes" ELSE "String")
    /\ \A t \in Threads : ret[t].kind = "DirEntry" => ret[t].mode = iterMode

\* C8 witness: an iterator built from bytes has yielded an entry, and the
\* call made after that, listdir with text, returned text names; and the
\* other way round, the name of an entry of a text iterator read as text
\* while the entry itself came after a readlink with bytes.
C8_Witness ==
    /\ ret[Caller].kind = "DirEntry"
    /\ \/ /\ ret[Caller].mode = "Bytes"
          /\ call.op = "listdir"
          /\ call.path.tag = "str"
          /\ outcome.exc = "none"
          /\ outcome.val.items # <<>>
          /\ outcome.val.items[1].tag = "str"
       \/ /\ ret[Caller].mode = "String"
          /\ call.op = "DirEntry.path"
          /\ outcome.exc = "none"
          /\ outcome.val.tag = "str"

(***************************************************************************)
(* Claims about access, checked under SpecCall.                            *)
(***************************************************************************)
AccessCase == Done /\ call.op = "posix.access" /\ PathArgsOk(platform, call)

MetadataOk == ~HasNul(TryFromObject(platform, call.path).path) /\ call.nat.ok

\* C11: posix access with the mask F_OK returns true when the metadata of
\* the path can be retrieved and false, raising nothing, when it cannot; on
\* that path the only native call is the metadata query: neither the uid
\* nor the group list is retrieved.
C11_ExistenceOnly ==
    (AccessCase /\ call.x.mode = 0) =>
        /\ outcome.exc = "none"
        /\ outcome.val = BoolVal(MetadataOk)
        /\ \A i \in 1..Len(outcome.native) : outcome.native[i] = "metadata"

\* C11 witness: F_OK on a path whose metadata cannot be retrieved returned
\* false, and on one whose metadata can be retrieved true.
C11_Witness ==
    /\ AccessCase
    /\ call.x.mode = 0
    /\ \/ ~call.nat.ok /\ outcome.val = BoolVal(FALSE)
       \/ call.nat.ok /\ outcome.val = BoolVal(TRUE) /\ call.x.st_mode = 0

\* the triple the claim selects, and whether it grants every requested bit
C12_Triple ==
    IF call.x.uid = call.x.st_uid THEN (call.x.st_mode \div 64) % 8
    ELSE IF call.x.st_gid \in call.x.groups.ids THEN (call.x.st_mode \div 8) % 8
    ELSE call.x.st_mode % 8

C12_Granted == \A b \in {1, 2, 4} : HasBit(call.x.mode, b) => HasBit(C12_Triple, b)

C13_BadMaskRejected ==
    (/\ Done
     /\ call.op \in {"posix.access", "nt.access"}
     /\ PathArgsOk(platform, call)
     /\ ~HasNul(TryFromObject(platform, call.path).path)
     /\ call.x.mode >= 8)
    => /\ outcome.exc = "ValueError"
       /\ outcome.native = <<>>

(***************************************************************************)
(* Claims about utime, checked under SpecCall.                             *)
(***************************************************************************)
UtimeCase ==
    /\ Done
    /\ call.op = "utime"
    /\ PathArgsOk(platform, call)
    /\ ~DirFdGiven(call.dir_fd)

\* C14: utime given both times and ns fails with ValueError and issues no
\* native call; given neither, the access time and the modification time
\* handed to the native call are one and the same reading of the clock;
\* given exactly one of them that is not a tuple of length 2, it fails with
\* TypeError and issues no native call.
C14_UtimeArguments ==
    UtimeCase =>
        /\ (call.utimes # <<>> /\ call.uns # <<>>) =>
              outcome.exc = "ValueError" /\ outcome.native = <<>>
        /\ (call.utimes = <<>> /\ call.uns = <<>> /\ outcome.exc = "none") =>
              /\ outcome.val.acc = outcome.val.modif
              /\ outcome.val.acc = [src |-> "now", v |-> call.x.clock[1]]
              /\ outcome.native # <<>>
        /\ \A one \in {<<call.utimes, call.uns>>, <<call.uns, call.utimes>>} :
              (one[1] # <<>> /\ one[1] # <<2>> /\ one[2] = <<>>) =>
                  outcome.exc = "TypeError" /\ outcome.native = <<>>

\* C14 witness: utime(path) with neither times nor ns succeeded, at a moment
\* when a second reading of the clock would have differed from the first.
C14_Witness ==
    /\ UtimeCase
    /\ call.utimes = <<>> /\ call.uns = <<>>
    /\ outcome.exc = "none"
    /\ call.x.clock[1] # call.x.clock[2]
    /\ outcome.val.modif.v = call.x.clock[1]

(***************************************************************************)
(* Claims about chown, lchown and fchown, checked under SpecCall.          *)
(***************************************************************************)
ChownCase ==
    /\ Done
    /\ call.op \in {"chown", "lchown", "fchown"}
    /\ IF call.op = "chown" THEN TryEitherPathFd(platform, call.path).err = "none"
       ELSE IF call.op = "lchown" THEN TryFromObject(platform, call.path).err = "none"
       ELSE call.path.tag = "int"
    /\ DirFdFromArgs(1, call.dir_fd).err = "none"

InvalidArgument(o) == o.exc = "ValueError" \/ o.errno = <<EINVAL>>

\* C15: chown, lchown and fchown hand an id of -1 to the native call as
\* 'leave unchanged' while the other id is applied, and an owner or group id
\* below -1 fails with the invalid-argument kind, not a generic OS error,
\* before any native call or descriptor-to-path lookup.
C15_ChownIds ==
    ChownCase =>
        /\ (outcome.exc = "none") =>
              /\ (call.x.uid = Isize(-1)) <=> (outcome.val.uid = <<>>)
              /\ (call.x.gid = Isize(-1)) <=> (outcome.val.gid = <<>>)
        /\ (\/ IsNegW(call.x.uid) /\ call.x.uid # Isize(-1)
            \/ IsNegW(call.x.gid) /\ call.x.gid # Isize(-1)) =>
              InvalidArgument(outcome) /\ outcome.native = <<>>

(***************************************************************************)
(* Claims about execv and execve, checked under SpecCall.                  *)
(***************************************************************************)
\* an exec call whose path and argument list are of the declared types
ExecCase ==
    /\ Done
    /\ call.op \in {"posix.execv", "posix.execve", "nt.execv"}
    /\ IF call.op = "posix.execve" THEN TryFromObject(platform, call.path).err = "none"
       ELSE call.path.tag = "str"
    /\ ExtractElements(call.x.argv).err = "none"

ExecIssued == \E i \in 1..Len(outcome.native) :
                  outcome.native[i] \in {"execv", "execve", "_wexecv"}

\* C16: execv and execve (POSIX, and execv on Windows) called with an empty
\* argument list, or with a first argument that is the empty string, fail
\* with ValueError without issuing the native exec call; and when the native
\* exec call is issued and fails, the call ends in an error.
C16_ExecArguments ==
    ExecCase =>
        /\ (call.x.argv = <<>> \/ call.x.argv[1].b = <<>>) =>
              outcome.exc = "ValueError" /\ ~ExecIssued
        /\ (ExecIssued /\ ~call.nat.ok) =>
              /\ outcome.exc \notin {"none", "ValueError", "TypeError"}
              /\ outcome.errno = call.nat.err.raw

\* C16 witness: execv with a two-element list whose first element is the
\* empty string was refused, the path being valid and the native call ready
\* to succeed.
C16_Witness ==
    /\ ExecCase
    /\ call.op = "posix.execv"
    /\ ~HasNul(call.path.b)
    /\ Len(call.x.argv) = 2 /\ call.x.argv[1].b = <<>>
    /\ call.nat.ok
    /\ outcome.exc = "ValueError"

(***************************************************************************)
(* Claims about posix_spawn and posix_spawnp, checked under SpecCall.      *)
(***************************************************************************)
SpawnCase ==
    /\ Done
    /\ call.op \in {"posix_spawn", "posix_spawnp"}
    /\ TryFromObject(platform, call.path).err = "none"
    /\ ~HasNul(TryFromObject(platform, call.path).path)

SpawnIssued == \E i \in 1..Len(outcome.native) :
                   outcome.native[i] \in {"posix_spawn", "posix_spawnp"}

\* the native calls that register a file action, in the order they were made
AddCalls == SelectSeq(outcome.native,
                      LAMBDA n : n \in {"posix_spawn_file_actions_addopen",
                                        "posix_spawn_file_actions_addclose",
                                        "posix_spawn_file_actions_adddup2"})

AddCallFor(a) == CASE a.id = <<0>> -> "posix_spawn_file_actions_addopen"
                   [] a.id = <<1>> -> "posix_spawn_file_actions_addclose"
                   [] a.id = <<2>> -> "posix_spawn_file_actions_adddup2"
                   [] OTHER -> "-"

\* an element that is an empty tuple, has an unknown identifier, arguments of
\* the wrong shape, or an Open path with a NUL
Malformed(a) ==
    \/ a.id = <<>>
    \/ a.id[1] \notin {0, 1, 2}
    \/ a.id[1] = 0 /\ (Len(a.args) # 4 \/ a.args[2].t # "path" \/ a.args[2].nul
                        \/ \E i \in {1, 3, 4} \cap (1..Len(a.args)) : a.args[i].t # "int")
    \/ a.id[1] = 1 /\ (Len(a.args) # 1 \/ ~AllInts(a.args))
    \/ a.id[1] = 2 /\ (Len(a.args) # 2 \/ ~AllInts(a.args))

\* C17: posix_spawn and posix_spawnp register the file actions with the
\* native list in the order of the caller's sequence, and when some element
\* is malformed, at whatever position, the call fails without issuing the
\* native spawn call.
C17_ActionsInOrder ==
    SpawnCase =>
        /\ Len(outcome.reg) <= Len(call.x.actions)
        /\ \A i \in 1..Len(outcome.reg) :
              /\ outcome.reg[i] = call.x.actions[i]
              /\ AddCalls[i] = AddCallFor(call.x.actions[i])
        /\ Len(AddCalls) \in {Len(outcome.reg), Len(outcome.reg) + 1}
        /\ SpawnIssued => outcome.reg = call.x.actions /\ Len(AddCalls) = Len(outcome.reg)
        /\ (\E i \in 1..Len(call.x.actions) : Malformed(call.x.actions[i])) =>
              outcome.exc # "none" /\ ~SpawnIssued

\* C17 witness: a call whose second file action is an Open with a NUL in its
\* path failed after its first action, a Close, had been registered.
C17_Witness ==
    /\ SpawnCase
    /\ Len(call.x.actions) = 2
    /\ ~Malformed(call.x.actions[1]) /\ call.x.actions[1].id = <<1>>
    /\ call.x.actions[2].id = <<0>> /\ Malformed(call.x.actions[2])
    /\ Len(call.x.actions[2].args) = 4 /\ call.x.actions[2].args[2].nul
    /\ call.x.addfail = 0
    /\ outcome.reg = <<call.x.actions[1]>>
    /\ outcome.exc = "ValueError"

\* C18: every error exit of posix_spawn and posix_spawnp taken after the
\* file-actions object (and the attributes object) was initialised destroys
\* those objects before the error is surfaced.
C18_SpawnReleases ==
    (SpawnCase /\ outcome.exc # "none") => outcome.live = {}

(***************************************************************************)
(* Claims about pipe, dup and dup2, checked under SpecCall.                *)
(***************************************************************************)
FdCase == Done /\ call.op \in {"pipe", "dup", "dup2"}

\* the inheritance-flag steps the call reaches, in order
StepsTaken == IF call.op = "pipe" THEN call.x.step ELSE <<call.x.step[1]>>

\* C19: every descriptor returned by pipe, dup and dup2 is non-inheritable
\* unless the caller passed inheritable=true; dup2(fd, fd2) without the
\* argument returns a non-inheritable descriptor and both ends of a pipe are
\* non-inheritable.
C19_NonInheritableByDefault ==
    (FdCase /\ outcome.exc = "none") =>
        /\ outcome.fds # <<>>
        /\ Len(outcome.fds) = (IF call.op = "pipe" THEN 2 ELSE 1)
        /\ \A i \in 1..Len(outcome.fds) :
              \/ outcome.fds[i].open /\ outcome.fds[i].cloexec
              \/ call.op = "dup2" /\ call.x.inheritable = <<TRUE>>

\* C20: when the inheritance-flag step fails inside pipe (on either end) or
\* dup, every descriptor the call created is closed before the error is
\* returned, and the error is that of the inheritance step.
C20_RollbackOnFailure ==
    (FdCase /\ call.op \in {"pipe", "dup"} /\ call.nat.ok
        /\ \E i \in 1..Len(StepsTaken) : StepsTaken[i] # "none") =>
        /\ outcome.exc # "none"
        /\ outcome.errno = InheritError.raw
        /\ Len(outcome.fds) = (IF call.op = "pipe" THEN 2 ELSE 1)
        /\ \A i \in 1..Len(outcome.fds) : ~outcome.fds[i].open

\* C20 witness: a pipe whose read end took the flag and whose write end did
\* not was rolled back with both ends closed.
C20_Witness ==
    /\ FdCase
    /\ call.op = "pipe" /\ call.nat.ok
    /\ call.x.step[1] = "none" /\ call.x.step[2] = "set"
    /\ outcome.exc = "PermissionError"
    /\ outcome.fds = <<[open |-> FALSE, cloexec |-> TRUE], [open |-> FALSE, cloexec |-> FALSE]>>

(***************************************************************************)
(* Claims about putenv and unsetenv, checked under SpecCall.               *)
(***************************************************************************)
EnvCase ==
    /\ Done
    /\ call.op \in {"putenv", "unsetenv"}
    /\ EnvArg(platform, call.x.key).err = "none"
    /\ call.op = "putenv" => EnvArg(platform, call.x.value).err = "none"

\* C21: putenv and unsetenv called with a key that holds an embedded NUL or
\* an '=' are rejected with an error value, leave the environment unchanged
\* and never panic.
C21_BadKeyRejected ==
    (EnvCase /\ (HasNul(call.x.key.b) \/ HasEq(call.x.key.b))) =>
        /\ outcome.exc \notin {"none", "panic"}
        /\ outcome.env = call.x.env

(***************************************************************************)
(* Claims about the advertised capability sets, checked under SpecCall.    *)
(***************************************************************************)
ModuleCase == Done /\ call.op = "make_module"

TableEntry == CHOOSE s \in SupportFuncs(platform) : s.name = call.x.name

\* C22: for every operation of the capability table, membership in
\* supports_dir_fd agrees with whether the operation accepts a non-default
\* dir_fd on the platform, membership in supports_fd with whether it accepts
\* a descriptor as its target, membership in supports_follow_symlinks with
\* whether it honours follow_symlinks = false; an entry marked None is in
\* none of the sets.
C22_SetsAgree ==
    ModuleCase =>
        /\ call.x.name \in outcome.supports_dir_fd <=> AcceptsDirFd(platform, call.x.name)
        /\ call.x.name \in outcome.supports_fd <=> AcceptsFd(platform, call.x.name)
        /\ call.x.name \in outcome.supports_follow_symlinks
              <=> HonoursNoFollow(platform, call.x.name)
        /\ TableEntry.fd = <<>> => call.x.name \notin outcome.supports_fd
        /\ TableEntry.dir_fd = <<>> => call.x.name \notin outcome.supports_dir_fd
        /\ TableEntry.follow_symlinks = <<>>
              => call.x.name \notin outcome.supports_follow_symlinks

C24_EachEntryOnce ==
    /\ [](\A t \in Threads :
            /\ local[t] # NoItem => entriesLock = t
            /\ entriesLock = t => pc[t] = "match")
    /\ [][\A t \in Threads :
            /\ entries' # entries => entriesLock = 0 /\ entriesLock' # 0
            /\ NextRead(t) =>
                 /\ entriesLock = 0 /\ entriesLock' = t
                 /\ \A u \in Threads \ {t} : local'[u] = local[u]
                 /\ entries # <<>> => /\ local'[t] = Head(entries)
                                      /\ entries' = Tail(entries)
                 /\ entries = <<>> => local'[t] = NoItem /\ entries' = <<>>
            /\ NextMatch(t) =>
                 /\ local[t].tag = "ok" =>
                      /\ ret'[t] = RetDirEntry(local[t].name, iterMode)
                      /\ exhausted' = exhausted
                 /\ local[t].tag = "err" => ret'[t] = RetOSError /\ exhausted' = exhausted
                 /\ local[t].tag = "none" => ret'[t] = RetStop /\ exhausted'
                 /\ local'[t] = NoItem /\ entriesLock' = 0]_vars

\* C24 witness: two threads advanced an open iterator over two entries; each
\* got one of them, the two differ, and nothing is left in the stream.
C24_Witness ==
    /\ ~closed /\ ~exhausted
    /\ entries = <<>>
    /\ entriesLock = 0
    /\ ret[1].kind = "DirEntry" /\ ret[2].kind = "DirEntry"
    /\ ret[1].name # ret[2].name

(***************************************************************************)
(* Claims about the two error translators, checked under SpecCall.         *)
(***************************************************************************)
\* C25: the two error translators agree: a native error code that arrives
\* as a nix error is given the exception kind the same code is given when it
\* arrives as an io::Error (ENOENT not-found, EEXIST already-exists, EACCES
\* permission-denied, EAGAIN would-block, ESRCH process-lookup-failed).
C25_TranslatorsAgree ==
    (Done /\ outcome.via = "nix" /\ outcome.errno # <<>>) =>
        outcome.exc = IntoPyException(OsError(outcome.errno[1]), <<>>).exc

\* C26: when a native spawn step (an add call of the file actions,
\* posix_spawn or posix_spawnp) fails by returning a non-zero error number,
\* the error surfaced carries exactly that number, whatever the thread's
\* errno held before the call.
C26_SpawnErrorNumber ==
    SpawnCase =>
        /\ (SpawnIssued /\ call.x.ret # 0) =>
              outcome.exc # "none" /\ outcome.errno = <<call.x.ret>>
        /\ (outcome.exc # "none" /\ Len(AddCalls) = Len(outcome.reg) + 1) =>
              outcome.errno = <<AddFailure>>

(***************************************************************************)
(* Claims about the timestamps utime hands over, checked under SpecCall.   *)
(***************************************************************************)
UtimeValueCase ==
    /\ Done
    /\ call.op = "utime"
    /\ outcome.exc = "none"
    /\ call.utimes = <<2>> \/ call.uns = <<2>>

\* C27: for every non-negative time (secs, subsec_nanos) passed to utime the
\* native timestamp is secs whole seconds plus the sub-second remainder
\* only: on Windows (secs + 11644473600) * 10_000_000 + subsec_nanos / 100
\* intervals, on Redox tv_usec = subsec_nanos / 1000 (below 1_000_000), on
\* the other targets tv_nsec = subsec_nanos; and ns = (a, m) gives Durations
\* of n div 10^9 seconds and n mod 10^9 nanoseconds.
C27_TimestampExact ==
    UtimeValueCase =>
        \A i \in 1..2 :
            LET d == outcome.val.dur[i]
                t == outcome.val.native[i]
            IN  /\ call.utimes = <<2>> => d = call.x.d[i]
                /\ call.uns = <<2>> =>
                      /\ d.nanos \in 0..(NANOS_PER_SEC - 1)
                      /\ ExactNs(call.x.n[i], ZExt(d.secs, NsWidth),
                                 NatLimbs(d.nanos, NsWidth))
                /\ IsWindows(platform) =>
                      t.intervals =
                          AddW(MulW(AddW(d.secs, FiletimeEpoch), NatLimbs(10000000, TimeWidth)),
                               NatLimbs(d.nanos \div 100, TimeWidth))
                /\ platform = "redox" =>
                      /\ t.tv_sec = d.secs
                      /\ t.tv_usec = NatLimbs(d.nanos \div 1000, TimeWidth)
                /\ (~IsWindows(platform) /\ platform # "redox") =>
                      /\ t.tv_sec = d.secs
                      /\ t.tv_nsec = NatLimbs(d.nanos, TimeWidth)

(***************************************************************************)
(* Claims about the ids chown hands to the native call, under SpecCall.    *)
(***************************************************************************)
\* the id the native fchownat takes as 'leave unchanged': (uid_t) -1
NativeUnchanged == <<255, 255, 255, 255>>
PassedExactly(id, passed) ==
    (~IsNegW(id)) => /\ passed # <<>>
                     /\ ZExt(passed[1], IsizeWidth) = id
                     /\ passed[1] # NativeUnchanged

\* C28: for every owner or group id >= 0 accepted by chown, lchown or
\* fchown, the id passed to the native call equals the caller's id: an id
\* >= 2^32 is not reduced modulo 2^32 to a different id, and the id
\* 2^32 - 1 is not turned into the native 'leave unchanged' value.
C28_IdPassedExactly ==
    (ChownCase /\ outcome.exc = "none") =>
        /\ PassedExactly(call.x.uid, outcome.val.uid)
        /\ PassedExactly(call.x.gid, outcome.val.gid)

(***************************************************************************)
(* Claims about chmod, checked under SpecCall.                             *)
(***************************************************************************)
ChmodCase == Done /\ call.op \in {"posix.chmod", "nt.chmod"} /\ outcome.exc = "none"

\* the permission bits a stat after the chmod reports, without the execute
\* bits of a directory
StatAfterChmod ==
    (StMode(call.x.dir, outcome.fs.perm.readonly) % 512) - (IF call.x.dir THEN 73 ELSE 0)

\* C29: on Windows, chmod(path, mode) makes the file writable when the
\* owner-write bit (S_IWRITE, 128) is set in mode and read-only when it is
\* clear, so that a following stat reports mode bits 0o666 resp. 0o444; on
\* POSIX, chmod with follow_symlinks=false does not change the permissions
\* of the symlink's target.
C29_ChmodEffect ==
    ChmodCase =>
        /\ (call.op = "nt.chmod") =>
              StatAfterChmod = (IF (call.x.mode \div S_IWRITE) % 2 = 1 THEN 438 ELSE 292)
        /\ (call.op = "posix.chmod" /\ ~call.follow /\ call.x.islink) =>
              outcome.fs.object # "target"

(***************************************************************************)
(* Claims about setreuid, checked under SpecCall.                          *)
(***************************************************************************)
SetreuidCase == Done /\ call.op = "setreuid"

\* C30: setreuid(ruid, euid) is all-or-nothing: when it returns an error,
\* neither the real nor the effective user id of the process has changed,
\* and when it succeeds the real uid is ruid and the effective uid is euid.
C30_SetreuidAllOrNothing ==
    SetreuidCase =>
        IF outcome.exc # "none"
        THEN outcome.cred.r = call.x.cred.r /\ outcome.cred.e = call.x.cred.e
        ELSE outcome.cred.r = call.x.ruid /\ outcome.cred.e = call.x.euid

====
